---- MODULE Spec2Model ----
(***************************************************************************)
(* A model of ART's concurrent mark-compact collector (mark_compact.cc):   *)
(* the compaction plan computed before the compaction pause, and the       *)
(* concurrent compaction phase in which the GC thread and faulting         *)
(* mutators (SIGBUS mode) or userfaultfd workers (threading mode) race to  *)
(* compact and publish the pages of the moving space.                      *)
(*                                                                         *)
(* Addresses are word offsets from the begin of the moving space; one      *)
(* word is kAlignment bytes.  The page size and the chunk size are scaled  *)
(* down (a page is PageWords words), the ratios of the source are kept:    *)
(* a page is a whole number of chunks, kMinFromSpaceMadviseSize is larger  *)
(* than the retained buffer pages.                                         *)
(***************************************************************************)
EXTENDS Integers, Sequences, FiniteSets, TLC

\* ------------------------------------------------------------------ units
kAlignment == 1
kBitsPerVectorWord == 2
kOffsetChunkSize == kBitsPerVectorWord * kAlignment
gPageSize == 4
PageWords == gPageSize \div kAlignment

Null == -1

\* Values of heap words.  A non-negative value is a reference into the
\* moving space (a word address).  Negative values are not references into
\* the moving space.
ZeroWord == -1
ImmuneRef == -2
DataWord(w) == -(10 + w)

Min(a, b) == IF a < b THEN a ELSE b
Max(a, b) == IF a < b THEN b ELSE a
AlignUp(x, n) == ((x + n - 1) \div n) * n
AlignDown(x, n) == (x \div n) * n
DivideByPageSize(x) == x \div gPageSize
ModuloPageSize(x) == x % gPageSize

\* ------------------------------------------------------------ heap layouts
\* An object: its address, its size in words, the address of its class when
\* the class is itself in the moving space (Null otherwise), whether the
\* marking phase marked it, and its fields 1..size-1 (word 0 is the class
\* pointer): the referent's address for a reference field, Null for data.
Obj(a, s, k, m, f) == [addr |-> a, size |-> s, klass |-> k, marked |-> m, fields |-> f]

\* A layout is a heap at the compaction pause: the objects allocated before
\* the marking pause (below black_allocations_begin_), and the TLAB blocks
\* allocated after it, each with the objects bump-allocated in it and the
\* thread that owns it (0: no running thread).
Layout1 ==
  [ objs |-> << Obj(0, 3, Null, TRUE, <<8, Null>>),
                Obj(3, 1, Null, FALSE, <<>>),
                Obj(4, 2, 12, TRUE, <<20>>),
                Obj(6, 2, Null, FALSE, <<Null>>),
                Obj(8, 3, Null, TRUE, <<0, 14>>),
                Obj(11, 1, Null, FALSE, <<>>),
                Obj(12, 2, Null, TRUE, <<Null>>),
                Obj(14, 2, 12, TRUE, <<4>>),
                Obj(16, 4, Null, FALSE, <<Null, Null, Null>>) >>,
    black_allocations_begin_ |-> 20,
    first_block_size |-> 20,
    blocks |-> << [size |-> 8, owner |-> 1,
                   objs |-> << Obj(20, 3, Null, TRUE, <<14, Null>>) >>] >>,
    space_words |-> 32 ]

Layouts == << Layout1 >>
LayoutIds == 1..Len(Layouts)

SeqToSet(s) == {s[i] : i \in 1..Len(s)}
PrePauseObjs(l) == SeqToSet(l.objs)
BlackObjs(l) == UNION {SeqToSet(l.blocks[b].objs) : b \in 1..Len(l.blocks)}
AllObjs(l) == PrePauseObjs(l) \cup BlackObjs(l)
LiveObjs(l) == {o \in PrePauseObjs(l) : o.marked} \cup BlackObjs(l)
ObjAt(l, a) == CHOOSE o \in AllObjs(l) : o.addr = a
ObjCovering(l, w) == {o \in AllObjs(l) : o.addr <= w /\ w < o.addr + o.size}

\* The content of the from-space (the pre-compaction heap) at word w.
FromWord(l, w) ==
  IF ObjCovering(l, w) = {} THEN ZeroWord
  ELSE LET o == CHOOSE x \in ObjCovering(l, w) : TRUE
           k == w - o.addr
       IN IF k = 0 THEN (IF o.klass = Null THEN ImmuneRef ELSE o.klass)
          ELSE IF o.fields[k] = Null THEN DataWord(w) ELSE o.fields[k]

\* --------------------------------------------------------- marking results
vector_length_(l) == l.space_words \div kBitsPerVectorWord
MaxPages(l) == l.space_words \div PageWords

\* LiveWordsBitmap::SetLiveWords: the bits of the words [begin, begin+size).
SetLiveWords(bitmap, obj_begin, size) ==
  bitmap \cup {w \in obj_begin \div kAlignment .. (obj_begin + size) \div kAlignment - 1 : TRUE}

RECURSIVE FillChunks(_, _, _)
FillChunks(vec, chunk_idx, size) ==
  IF size > kOffsetChunkSize
  THEN FillChunks([vec EXCEPT ![chunk_idx] = kOffsetChunkSize], chunk_idx + 1,
                  size - kOffsetChunkSize)
  ELSE [vec EXCEPT ![chunk_idx] = @ + size]

\* MarkCompact::UpdateLivenessInfo on the pair <<live-words bitmap, chunk_info_vec_>>.
UpdateLivenessInfo(st, obj_begin, obj_size) ==
  LET size == AlignUp(obj_size, kAlignment)
      bit_index == (obj_begin \div kAlignment) % kBitsPerVectorWord
      chunk_idx == obj_begin \div kOffsetChunkSize
      first_chunk_portion == Min(size, (kBitsPerVectorWord - bit_index) * kAlignment)
  IN [bitmap |-> SetLiveWords(st.bitmap, obj_begin, size),
      vec |-> FillChunks([st.vec EXCEPT ![chunk_idx] = @ + first_chunk_portion],
                         chunk_idx + 1, size - first_chunk_portion)]

RECURSIVE MarkAll(_, _, _)
MarkAll(l, i, st) ==
  IF i > Len(l.objs) THEN st
  ELSE LET o == l.objs[i]
       IN MarkAll(l, i + 1,
                  IF o.marked THEN UpdateLivenessInfo(st, o.addr * kAlignment, o.size * kAlignment)
                  ELSE st)

\* The liveness information when the marking phase is over.
AfterMarking(l) ==
  l @@ [liveness |->
          MarkAll(l, 1, [bitmap |-> {}, vec |-> [c \in 0..vector_length_(l) - 1 |-> 0]])]

live_words_bitmap_(l) == l.liveness.bitmap

\* The moving-space mark bitmap after marking: the marked objects' addresses.
moving_space_bitmap_(l) == {o.addr : o \in {x \in PrePauseObjs(l) : x.marked}}

\* LiveWordsBitmap::FindNthLiveWordOffset: the offset, within chunk chunk_idx,
\* of its n-th (from 0) live word.
FindNthLiveWordOffset(l, chunk_idx, n) ==
  LET base == chunk_idx * kBitsPerVectorWord
      Live(k) == base + k \in live_words_bitmap_(l)
      Before(k) == Cardinality({j \in 0..k - 1 : Live(j)})
  IN CHOOSE k \in 0..kBitsPerVectorWord - 1 : Live(k) /\ Before(k) = n

\* SpaceBitmap::FindPrecedingObject: the marked object at or before addr.
\* The object is taken to begin at the address.
BeginsAt(l, addr) == addr

\* SpaceBitmap::FindPrecedingObject: the marked object that begins at the
\* address or is the last to begin before it.
FindPrecedingObject(l, addr) ==
  LET below == {a \in moving_space_bitmap_(l) : a <= addr}
  IN CHOOSE a \in below : \A b \in below : b <= a

\* ---------------------------------------------------------------- the plan
\* chunk_info_vec_[i]; the loop of lines 846-851 reads the entry at vec_len
\* before it returns, and when the vector is full that is the word after the
\* vector, first_objs_moving_space_[0] (lines 411-415), zero until the plan
\* is made.
ChunkInfo(vec, i) == IF i \in DOMAIN vec THEN vec[i] ELSE 0

RECURSIVE FirstLiveChunk(_, _, _)
FirstLiveChunk(vec, vec_len, chunk_idx) ==
  IF ChunkInfo(vec, chunk_idx) = 0
  THEN (IF chunk_idx >= vec_len THEN Null ELSE FirstLiveChunk(vec, vec_len, chunk_idx + 1))
  ELSE chunk_idx

RECURSIVE PlanPages(_, _, _, _, _, _)
PlanPages(l, vec, vec_len, chunk_idx, page_live_bytes, plan) ==
  IF page_live_bytes <= gPageSize
  THEN IF chunk_idx >= vec_len
       THEN [plan EXCEPT !.moving_first_objs_count_ = plan.to_space_page_idx]
       ELSE PlanPages(l, vec, vec_len, chunk_idx + 1, page_live_bytes + vec[chunk_idx], plan)
  ELSE LET c == chunk_idx - 1
           rest == page_live_bytes - gPageSize
           offset == c * kBitsPerVectorWord
                     + FindNthLiveWordOffset(l, c, (vec[c] - rest) \div kAlignment)
           obj == FindPrecedingObject(l, offset)
       IN PlanPages(l, vec, vec_len, c + 1, rest,
                    [plan EXCEPT !.pre_compact_offset_moving_space_[plan.to_space_page_idx] = offset,
                                 !.first_objs_moving_space_[plan.to_space_page_idx] = obj,
                                 !.to_space_page_idx = @ + 1])

\* MarkCompact::InitMovingSpaceFirstObjects.
InitMovingSpaceFirstObjects(l, vec_len) ==
  LET vec == l.liveness.vec
      plan0 == [first_objs_moving_space_ |-> [p \in 0..MaxPages(l) - 1 |-> Null],
                pre_compact_offset_moving_space_ |-> [p \in 0..MaxPages(l) - 1 |-> 0],
                to_space_page_idx |-> 0,
                moving_first_objs_count_ |-> 0]
      first == FirstLiveChunk(vec, vec_len, 0)
  IN IF first = Null THEN plan0
     ELSE LET offset == first * kBitsPerVectorWord + FindNthLiveWordOffset(l, first, 0)
          IN PlanPages(l, vec, vec_len, first, 0,
                       [plan0 EXCEPT !.pre_compact_offset_moving_space_[0] = offset,
                                     !.first_objs_moving_space_[0] = offset,
                                     !.to_space_page_idx = 1])

\* Every element is left with the live bytes of the chunk before it.
NoScan(vec, n) == IF n = 0 THEN 0 ELSE vec[n - 1]

\* std::exclusive_scan (line 1063): the live bytes of the chunks before n.
RECURSIVE SumUpTo(_, _)
SumUpTo(vec, n) == IF n = 0 THEN 0 ELSE vec[n - 1] + SumUpTo(vec, n - 1)

\* The end of the compacted portion is the page after the one the live
\* bytes end in, also when they end at a page boundary.
NextPageEnd(total) == AlignUp(total + 1, gPageSize)

\* The end of the compacted portion is where the live bytes end.
LiveBytesEnd(total) == total

\* Line 1069, space_begin being 0.
PostCompactEnd(total) == AlignUp(total, gPageSize)

\* The distance from the begin of the black allocations up to the end of
\* the compacted portion.
SlideUp(begin, end) == end - begin

\* Line 1071.
SlideDiff(begin, end) == begin - end

\* The total begins at zero whether the vector is full or not.
FromZero(vec, vector_len, vector_length) == 0

\* Lines 1055-1060: the total before the scan, which leaves out the last
\* entry when the used span fills the vector.
TotalBeforeScan(vec, vector_len, vector_length) ==
  IF vector_len < vector_length THEN 0 ELSE vec[vector_len - 1]

\* MarkCompact::PrepareForCompaction: the plan of the pre-pause part and the
\* prefix sums of chunk_info_vec_.
PrepareForCompaction(l) ==
  LET vec == l.liveness.vec
      vector_len == (l.black_allocations_begin_ * kAlignment) \div kOffsetChunkSize
      plan == InitMovingSpaceFirstObjects(l, vector_len)
      scan_len == IF vector_len < vector_length_(l) THEN vector_len + 1 ELSE vector_len
      total0 == TotalBeforeScan(vec, vector_len, vector_length_(l))
      scanned == [c \in 0..vector_length_(l) - 1 |->
                    IF c < scan_len THEN SumUpTo(vec, c) ELSE vec[c]]
      total == total0 + scanned[scan_len - 1]
      post_compact_end == PostCompactEnd(total)
  IN [first_objs_moving_space_ |-> plan.first_objs_moving_space_,
      pre_compact_offset_moving_space_ |-> plan.pre_compact_offset_moving_space_,
      moving_first_objs_count_ |-> plan.moving_first_objs_count_,
      chunk_info_vec_ |-> scanned,
      total |-> total,
      post_compact_end_ |-> post_compact_end,
      black_objs_slide_diff_ |-> SlideDiff(l.black_allocations_begin_ * kAlignment,
                                           post_compact_end)]

\* The heap with the plan of the pre-pause part.
AfterPrepare(l) == l @@ [prepared |-> PrepareForCompaction(l)]

\* ------------------------------------------------------- black allocations
HasBlackObjAt(l, a) == \E o \in BlackObjs(l) : o.addr = a

\* The loop over the objects of one block (lines 2611-2658).
RECURSIVE BlackObjLoop(_, _, _)
BlackObjLoop(l, block_end, s) ==
  IF ~(s.black_allocs < block_end /\ HasBlackObjAt(l, s.black_allocs)) THEN s
  ELSE
    LET obj == s.black_allocs
        obj_size == AlignUp(ObjAt(l, obj).size * kAlignment, kAlignment)
        first_obj == IF s.first_obj = Null THEN obj ELSE s.first_obj
        marks == IF s.set_mark_bit THEN s.marks \cup {obj} ELSE s.marks
        bpi == s.black_page_idx
        crossing == s.remaining_chunk_size + obj_size >= gPageSize
        first_chunk_size == s.first_chunk_size + gPageSize - s.remaining_chunk_size
        over == s.remaining_chunk_size + obj_size - gPageSize
        whole == over \div gPageSize
        store == s.chunk[bpi] = 0
        chunk1 == [p \in DOMAIN s.chunk |->
                     IF p = bpi /\ store THEN first_chunk_size
                     ELSE IF p > bpi /\ p <= bpi + whole THEN gPageSize
                     ELSE s.chunk[p]]
        first1 == [p \in DOMAIN s.first |->
                     IF p = bpi /\ store THEN first_obj
                     ELSE IF p > bpi /\ p <= bpi + whole THEN obj
                     ELSE s.first[p]]
        rest == over - whole * gPageSize
    IN BlackObjLoop(l, block_end,
         IF crossing
         THEN [s EXCEPT !.black_allocs = @ + obj_size, !.marks = marks,
                        !.set_mark_bit = FALSE, !.chunk = chunk1, !.first = first1,
                        !.black_page_idx = bpi + 1 + whole,
                        !.remaining_chunk_size = rest,
                        !.first_obj = IF rest > 0 THEN obj ELSE Null,
                        !.first_chunk_size = rest]
         ELSE [s EXCEPT !.black_allocs = @ + obj_size, !.marks = marks,
                        !.first_obj = first_obj,
                        !.first_chunk_size = @ + obj_size,
                        !.remaining_chunk_size = @ + obj_size])

\* The unallocated rest of a block (lines 2662-2681).
BlackBlockRest(s, block_end) ==
  IF ~(s.black_allocs < block_end) THEN s
  ELSE
    LET bpi == s.black_page_idx
        store == s.first_chunk_size > 0 /\ s.chunk[bpi] = 0
        page_remaining == gPageSize - s.remaining_chunk_size
        block_remaining == block_end - s.black_allocs
        s1 == [s EXCEPT !.chunk[bpi] = IF store THEN s.first_chunk_size ELSE @,
                        !.first[bpi] = IF store THEN s.first_obj ELSE @,
                        !.first_chunk_size = 0, !.first_obj = Null,
                        !.black_allocs = block_end]
    IN IF page_remaining <= block_remaining
       THEN [s1 EXCEPT !.black_page_idx = @ + 1 + DivideByPageSize(block_remaining - page_remaining),
                       !.remaining_chunk_size = ModuloPageSize(block_remaining - page_remaining)]
       ELSE [s1 EXCEPT !.remaining_chunk_size = @ + block_remaining]

RECURSIVE BlackBlocks(_, _, _, _)
BlackBlocks(l, b, block_end0, s) ==
  IF b > Len(l.blocks) THEN s
  ELSE
    LET block_end == block_end0 + l.blocks[b].size
    IN IF s.black_allocs >= block_end
       THEN BlackBlocks(l, b + 1, block_end, [s EXCEPT !.consumed_blocks_count = @ + 1])
       ELSE BlackBlocks(l, b + 1, block_end,
              BlackBlockRest(BlackObjLoop(l, block_end,
                               [s EXCEPT !.set_mark_bit = s.remaining_chunk_size > 0]),
                             block_end))

\* MarkCompact::UpdateMovingSpaceBlackAllocations.
UpdateMovingSpaceBlackAllocations(l) ==
  LET pre == l.prepared
      s0 == [black_allocs |-> l.black_allocations_begin_ * kAlignment,
             black_page_idx |-> pre.moving_first_objs_count_,
             remaining_chunk_size |-> 0, first_chunk_size |-> 0, first_obj |-> Null,
             set_mark_bit |-> FALSE, marks |-> {}, consumed_blocks_count |-> 0,
             chunk |-> [p \in 0..MaxPages(l) - 1 |-> 0],
             first |-> pre.first_objs_moving_space_]
      s1 == BlackBlocks(l, 1, l.first_block_size * kAlignment, s0)
      bpi == s1.black_page_idx
      s2 == IF bpi < MaxPages(l)
            THEN IF s1.chunk[bpi] > 0 THEN [s1 EXCEPT !.black_page_idx = @ + 1]
                 ELSE IF s1.first_chunk_size > 0
                      THEN [s1 EXCEPT !.chunk[bpi] = s1.first_chunk_size,
                                      !.first[bpi] = s1.first_obj,
                                      !.black_page_idx = @ + 1]
                      ELSE s1
            ELSE s1
  IN [first_objs_moving_space_ |-> s2.first,
      black_alloc_pages_first_chunk_size_ |-> s2.chunk,
      black_page_count_ |-> s2.black_page_idx - pre.moving_first_objs_count_,
      black_marks |-> s2.marks]

\* The heap with the plan of the black allocations, made in the pause.
AfterBlackAllocations(l) == l @@ [black |-> UpdateMovingSpaceBlackAllocations(l)]

\* The descriptors the compaction phase reads.
first_objs_moving_space_(l) == l.black.first_objs_moving_space_
pre_compact_offset_moving_space_(l) == l.prepared.pre_compact_offset_moving_space_
black_alloc_pages_first_chunk_size_(l) == l.black.black_alloc_pages_first_chunk_size_
moving_first_objs_count_(l) == l.prepared.moving_first_objs_count_
black_page_count_(l) == l.black.black_page_count_
black_allocations_begin_(l) == l.black_allocations_begin_ * kAlignment
post_compact_end_(l) == l.prepared.post_compact_end_
black_objs_slide_diff_(l) == l.prepared.black_objs_slide_diff_
chunk_info_vec_(l) == l.prepared.chunk_info_vec_
\* The number of to-space pages in use: page_status_arr_len.
NumPages(l) == moving_first_objs_count_(l) + black_page_count_(l)

\* ------------------------------------------------------ address translation
\* LiveWordsBitmap::CountLiveWordsUpto: the live words of bit_idx's chunk
\* that lie before bit_idx.
CountLiveWordsUpto(l, bit_idx) ==
  Cardinality({w \in live_words_bitmap_(l) :
                 w \div kBitsPerVectorWord = bit_idx \div kBitsPerVectorWord /\ w < bit_idx})

PostCompactOldObjAddr(l, old_ref) ==
  chunk_info_vec_(l)[(old_ref \div kAlignment) \div kBitsPerVectorWord]
    + CountLiveWordsUpto(l, old_ref \div kAlignment) * kAlignment

PostCompactBlackObjAddr(l, old_ref) == old_ref - black_objs_slide_diff_(l)

PostCompactAddress(l, old_ref) ==
  IF old_ref >= black_allocations_begin_(l)
  THEN PostCompactBlackObjAddr(l, old_ref)
  ELSE PostCompactOldObjAddr(l, old_ref)

\* MarkCompact::UpdateRef on the value of a reference field: a reference
\* into the moving space is translated, any other value is left alone.
UpdateRef(l, value) ==
  IF value >= 0 /\ value < l.space_words * kAlignment
  THEN PostCompactAddress(l, value)
  ELSE value

\* ------------------------------------------------------ roots and weaks
\* The spaces beside the moving space, each with the objects of it that a
\* root or a system weak can hold: the non-moving space (one object marked,
\* one not), an immune space, the large-object space (one object marked, one
\* not).  NonReference is a value that is an address of no space.
moving_space_end_(l) == l.space_words * kAlignment
non_moving_space_bitmap_(l) ==
  [begin |-> moving_space_end_(l), end |-> moving_space_end_(l) + gPageSize,
   marked |-> {moving_space_end_(l)},
   objs |-> {moving_space_end_(l), moving_space_end_(l) + 2 * kAlignment}]
immune_spaces_(l) ==
  [begin |-> non_moving_space_bitmap_(l).end, end |-> non_moving_space_bitmap_(l).end + gPageSize,
   objs |-> {non_moving_space_bitmap_(l).end}]
los_bitmap(l) ==
  [begin |-> immune_spaces_(l).end, end |-> immune_spaces_(l).end + 2 * gPageSize,
   marked |-> {immune_spaces_(l).end},
   objs |-> {immune_spaces_(l).end, immune_spaces_(l).end + gPageSize}]
NonReference(l) == los_bitmap(l).end + 1

HasAddress(obj, begin, end) == obj >= begin /\ obj < end

\* LinearAllocPageUpdater::VisitRoot without the test for a black
\* allocation: every reference into the moving space is looked up in the
\* live-words bitmap.
VisitRootOld(l, old_ref) ==
  IF HasAddress(old_ref, 0, moving_space_end_(l))
  THEN IF (old_ref \div kAlignment) \in live_words_bitmap_(l)
       THEN PostCompactOldObjAddr(l, old_ref)
       ELSE old_ref
  ELSE old_ref

\* LinearAllocPageUpdater::VisitRoot, lines 2883-2900: the value of the root
\* when it returns.
VisitRoot(l, old_ref) ==
  IF HasAddress(old_ref, 0, moving_space_end_(l))
  THEN IF old_ref >= black_allocations_begin_(l)
       THEN PostCompactBlackObjAddr(l, old_ref)
       ELSE IF (old_ref \div kAlignment) \in live_words_bitmap_(l)
            THEN PostCompactOldObjAddr(l, old_ref)
            ELSE old_ref
  ELSE old_ref

\* MarkCompact::IsMarked without is_black: an object of the moving space is
\* live when its bit is set.
IsMarkedByBitmap(l, compacting, obj) ==
  IF HasAddress(obj, 0, moving_space_end_(l))
  THEN IF compacting
       THEN IF (obj \div kAlignment) \in live_words_bitmap_(l)
            THEN PostCompactOldObjAddr(l, obj) ELSE Null
       ELSE IF (obj \div kAlignment) \in moving_space_bitmap_(l) THEN obj ELSE Null
  ELSE obj

\* MarkCompact::IsMarked, lines 4646-4680; Null is nullptr.
IsMarked(l, compacting, obj) ==
  IF HasAddress(obj, 0, moving_space_end_(l))
  THEN LET is_black == obj >= black_allocations_begin_(l)
       IN IF compacting
          THEN IF is_black THEN PostCompactBlackObjAddr(l, obj)
               ELSE IF (obj \div kAlignment) \in live_words_bitmap_(l)
                    THEN PostCompactOldObjAddr(l, obj)
                    ELSE Null
          ELSE IF is_black \/ (obj \div kAlignment) \in moving_space_bitmap_(l)
               THEN obj ELSE Null
  ELSE IF HasAddress(obj, non_moving_space_bitmap_(l).begin, non_moving_space_bitmap_(l).end)
       THEN IF obj \in non_moving_space_bitmap_(l).marked THEN obj ELSE Null
  ELSE IF HasAddress(obj, immune_spaces_(l).begin, immune_spaces_(l).end)
       THEN obj
  ELSE IF HasAddress(obj, los_bitmap(l).begin, los_bitmap(l).end)
       THEN IF obj \in los_bitmap(l).marked THEN obj ELSE Null
  ELSE Null

\* A root or a weak: the reference it holds, the reference it held before
\* it was last visited, and what visited it last.
Entry(ref) == [ref |-> ref, old |-> ref, by |-> "none"]

\* The GC roots of the linear-alloc arena when the marking is over: they
\* hold live objects only.
ArenaRoots(l) ==
  [i \in 1..Len(l.objs) |-> Entry(IF l.objs[i].marked THEN l.objs[i].addr * kAlignment ELSE Null)]
    \o [b \in 1..Len(l.blocks) |->
          Entry(IF Len(l.blocks[b].objs) > 0 THEN l.blocks[b].objs[1].addr * kAlignment ELSE Null)]
    \o << Entry(moving_space_end_(l)), Entry(immune_spaces_(l).begin), Entry(los_bitmap(l).begin) >>

\* The system weaks when the marking is over: they hold objects of every
\* space, marked or not.
SystemWeaks(l) ==
  [i \in 1..Len(l.objs) |-> Entry(l.objs[i].addr * kAlignment)]
    \o << Entry(moving_space_end_(l)), Entry(moving_space_end_(l) + 2 * kAlignment),
          Entry(immune_spaces_(l).begin),
          Entry(los_bitmap(l).begin), Entry(los_bitmap(l).begin + gPageSize) >>

\* The weaks the mutators add between the sweep of ReclaimPhase and the
\* compaction pause: objects they allocated, and in an interpreter cache a
\* value that is no reference (lines 4673-4677).
NewWeaks(l) ==
  [b \in 1..Len(l.blocks) |->
     Entry(IF Len(l.blocks[b].objs) > 0 THEN l.blocks[b].objs[1].addr * kAlignment ELSE Null)]
    \o << Entry(NonReference(l)) >>

\* Runtime::SweepSystemWeaks with this collector as the IsMarkedVisitor:
\* every entry that holds a reference gets what IsMarked answers.
SweepSystemWeaks(l, compacting, table) ==
  [i \in 1..Len(table) |->
     IF table[i].ref = Null THEN table[i]
     ELSE [ref |-> IsMarked(l, compacting, table[i].ref), old |-> table[i].ref,
           by |-> IF compacting THEN "compacting" ELSE "marking"]]

\* TrackedArena::VisitRoots with the arena_visitor of lines 3100-3108, and
\* the same updater on the pages in ProcessLinearAlloc: VisitRootIfNonNull
\* on every root.
VisitRoots(l, table) ==
  [i \in 1..Len(table) |->
     IF table[i].ref = Null THEN table[i]
     ELSE [ref |-> VisitRoot(l, table[i].ref), old |-> table[i].ref, by |-> "compacting"]]

\* ------------------------------------------------------ class-after-object
\* MarkCompact::UpdateClassAfterObjectMap over every live object: a class of
\* the moving space that lies above an instance, with its lowest instance.
class_after_obj_hash_map_(l) ==
  LET late == {o \in LiveObjs(l) : o.klass # Null /\ o.addr < o.klass}
  IN {<<k, Min2>> \in {<<o.klass, o.addr>> : o \in late} :
        \A o \in late : o.klass = k => Min2 <= o.addr}

RECURSIVE DescendingByClass(_)
DescendingByClass(pairs) ==
  IF pairs = {} THEN <<>>
  ELSE LET top == CHOOSE x \in pairs : \A y \in pairs : y[1] <= x[1]
       IN <<top>> \o DescendingByClass(pairs \ {top})

\* MarkCompact::UpdateClassAfterObjMap; the ordered map is held in the order
\* of its reverse iteration (class_after_obj_iter_ runs from rbegin).
class_after_obj_ordered_map_(l) ==
  DescendingByClass({pr \in class_after_obj_hash_map_(l) :
                       pr[2] < pr[1] /\ pr[1] < l.space_words * kAlignment})

AfterClassMap(l) == l @@ [class_after_obj |-> class_after_obj_ordered_map_(l)]

\* ------------------------------------------------------- compacting a page
\* What a buffer page holds before it is written: whatever was left in it.
StaleWord == -3

PageIdx == 0..PageWords - 1

\* A page under construction: its words, for each word the from-space word
\* it was copied from (Null: not copied), the from-space words read so far,
\* and whether a write fell outside the page or a word that is no object's
\* first word was taken for one.
EmptyPage ==
  [w |-> [i \in PageIdx |-> StaleWord], src |-> [i \in PageIdx |-> Null],
   reads |-> {}, bad |-> FALSE, done |-> 0, from_addr |-> 0]

\* The from-space words of the class of o: VisitRefsForCompaction reads the
\* class (reference offsets, object size) through the from-space.
ClassWords(l, o) ==
  IF o.klass = Null THEN {} ELSE o.klass..(o.klass + ObjAt(l, o.klass).size - 1)

\* A visit that updates no reference.
VisitNoRefs(l, pg, o, to_idx, kCheckBegin, begin_, kCheckEnd, end_, from_obj) == pg

\* Object::VisitRefsForCompaction with a RefsUpdateVisitor<kCheckBegin,
\* kCheckEnd>: o is the object, to_idx the index in the page of its word 0
\* (negative when it began on an earlier page), begin_ and end_ the indices
\* the visitor checks against.  from_obj: the object is read in the
\* from-space (else through its copy in the page).
VisitRefsForCompaction(l, pg, o, to_idx, kCheckBegin, begin_, kCheckEnd, end_, from_obj) ==
  LET refs == {0} \cup {k \in 1..o.size - 1 : o.fields[k] # Null}
      update(i) == /\ (i - to_idx) \in refs
                   /\ (~kCheckBegin \/ i >= begin_)
                   /\ (~kCheckEnd \/ i < end_)
  IN [pg EXCEPT
        !.w = [i \in PageIdx |-> IF update(i) THEN UpdateRef(l, pg.w[i]) ELSE pg.w[i]],
        !.bad = @ \/ \E k \in refs : update(to_idx + k) /\ to_idx + k \notin PageIdx,
        !.reads = @ \cup ClassWords(l, o) \cup (IF from_obj THEN {o.addr} ELSE {})]

memcpy(l, pg, dest, src_addr, n) ==
  [pg EXCEPT
     !.w = [i \in PageIdx |-> IF i >= dest /\ i < dest + n
                              THEN FromWord(l, src_addr + (i - dest)) ELSE pg.w[i]],
     !.src = [i \in PageIdx |-> IF i >= dest /\ i < dest + n
                                THEN src_addr + (i - dest) ELSE pg.src[i]],
     !.bad = @ \/ dest + n > PageWords,
     !.reads = @ \cup {src_addr + j : j \in 0..n - 1}]

memset(pg, dest, n) ==
  [pg EXCEPT !.w = [i \in PageIdx |-> IF i >= dest /\ i < dest + n THEN ZeroWord ELSE pg.w[i]],
             !.src = [i \in PageIdx |-> IF i >= dest /\ i < dest + n THEN Null ELSE pg.src[i]]]

IsObjStart(l, a) == \E o \in LiveObjs(l) : o.addr = a

\* LiveWordsBitmap::VisitLiveStrides: the first PageWords live words from
\* begin_bit_idx on, below the black allocations, in ascending order.
RECURSIVE LiveWordsFrom(_, _, _)
LiveWordsFrom(l, w, n) ==
  IF n = 0 \/ w >= black_allocations_begin_(l) \div kAlignment THEN <<>>
  ELSE IF w \in live_words_bitmap_(l) THEN <<w>> \o LiveWordsFrom(l, w + 1, n - 1)
  ELSE LiveWordsFrom(l, w + 1, n)

VisitLiveStrides(l, begin_bit_idx) == LiveWordsFrom(l, begin_bit_idx, PageWords)

\* The loop over the objects of all strides but the last (lines 1706-1714).
RECURSIVE CompactMiddle(_, _, _)
CompactMiddle(l, pg, bytes_to_visit) ==
  IF ~(bytes_to_visit > pg.done) THEN pg
  ELSE IF pg.done \notin PageIdx \/ ~IsObjStart(l, pg.src[pg.done])
       THEN [pg EXCEPT !.bad = TRUE]
       ELSE LET o == ObjAt(l, pg.src[pg.done])
            IN CompactMiddle(l,
                 [VisitRefsForCompaction(l, pg, o, pg.done, FALSE, 0, FALSE, 0, FALSE)
                    EXCEPT !.done = @ + AlignUp(o.size * kAlignment, kAlignment)],
                 bytes_to_visit)

\* The loop over the objects of the last stride (lines 1723-1754).
RECURSIVE CompactLast(_, _, _)
CompactLast(l, pg, bytes_to_visit) ==
  IF ~(bytes_to_visit > pg.done) THEN pg
  ELSE IF ~IsObjStart(l, pg.from_addr)
       THEN [pg EXCEPT !.bad = TRUE]
       ELSE LET o == ObjAt(l, pg.from_addr)
                obj_size == AlignUp(o.size * kAlignment, kAlignment)
            IN CompactLast(l,
                 [VisitRefsForCompaction(l, pg, o, pg.done, FALSE, 0, TRUE, PageWords, TRUE)
                    EXCEPT !.done = @ + obj_size, !.from_addr = @ + obj_size],
                 bytes_to_visit)

\* MarkCompact::CompactPage(obj, offset, addr, needs_memset_zero): the page
\* it leaves in the buffer at addr.
CompactPage(l, obj, offset, needs_memset_zero) ==
  LET live == VisitLiveStrides(l, offset)
      n == Len(live)
      starts == {i \in 1..n : i = 1 \/ live[i] # live[i - 1] + 1}
      stride_count == Cardinality(starts)
      last == CHOOSE i \in starts : \A j \in starts : j <= i
      last_stride == last - 1
      copied == [EmptyPage EXCEPT
                   !.w = [i \in PageIdx |-> IF i < n THEN FromWord(l, live[i + 1]) ELSE StaleWord],
                   !.src = [i \in PageIdx |-> IF i < n THEN live[i + 1] ELSE Null],
                   !.reads = {live[i] : i \in 1..n}]
      offset_within_obj == offset * kAlignment - obj
      o == ObjAt(l, obj)
      first == IF offset_within_obj > 0
               THEN IF stride_count > 1
                    THEN VisitRefsForCompaction(l, copied, o, 0 - offset_within_obj,
                                                TRUE, 0, FALSE, 0, TRUE)
                    ELSE VisitRefsForCompaction(l, copied, o, 0 - offset_within_obj,
                                                TRUE, 0, TRUE, PageWords, TRUE)
               ELSE copied
      obj_size == IF offset_within_obj > 0
                  THEN AlignUp(o.size * kAlignment, kAlignment) - offset_within_obj
                  ELSE 0
      last_stride_begin == IF offset_within_obj > 0 /\ stride_count = 1
                           THEN live[last] + obj_size \div kAlignment
                           ELSE live[last]
      middle == CompactMiddle(l, [first EXCEPT !.done = obj_size], last_stride)
      tail == CompactLast(l, [middle EXCEPT !.from_addr = last_stride_begin * kAlignment], n)
  IN IF needs_memset_zero /\ tail.done < gPageSize
     THEN memset(tail, tail.done, gPageSize - tail.done)
     ELSE tail

\* The loop over the objects of the first chunk (lines 1861-1872); pg.done
\* is dest, as an index in the page.
RECURSIVE SlideFirstChunk(_, _, _)
SlideFirstChunk(l, pg, bytes_to_visit) ==
  IF ~(bytes_to_visit > 0) THEN pg
  ELSE IF pg.done \notin PageIdx \/ ~IsObjStart(l, pg.src[pg.done])
       THEN [pg EXCEPT !.bad = TRUE]
       ELSE LET o == ObjAt(l, pg.src[pg.done])
                obj_size == AlignUp(o.size * kAlignment, kAlignment)
            IN SlideFirstChunk(l,
                 [VisitRefsForCompaction(l, pg, o, pg.done, FALSE, 0, FALSE, 0, FALSE)
                    EXCEPT !.done = @ + obj_size],
                 bytes_to_visit - obj_size)

\* The objects of the rest of the page, found through the mark bitmap (lines
\* 1918-1948): all but the last without checks, the last against the page end.
RECURSIVE SlideMarked(_, _, _, _, _)
SlideMarked(l, pg, marked, pre_compact_addr, dest) ==
  LET found_obj == CHOOSE a \in marked : \A b \in marked : a <= b
      o == ObjAt(l, found_obj)
      to_idx == dest + (found_obj - pre_compact_addr)
  IN IF marked \ {found_obj} = {}
     THEN VisitRefsForCompaction(l, pg, o, to_idx, FALSE, 0, TRUE, PageWords, TRUE)
     ELSE SlideMarked(l, VisitRefsForCompaction(l, pg, o, to_idx, FALSE, 0, FALSE, 0, FALSE),
                      marked \ {found_obj}, pre_compact_addr, dest)

\* MarkCompact::SlideBlackPage: the page it leaves in the buffer at dest.
SlideBlackPage(l, first_obj, next_page_first_obj, first_chunk_size, pre_compact_page,
               needs_memset_zero) ==
  LET pre_compact_page_end == pre_compact_page + gPageSize
      hole == first_obj > pre_compact_page
      bytes_copied0 == IF hole THEN first_obj - pre_compact_page ELSE 0
      src_addr == IF hole THEN first_obj ELSE pre_compact_page
      zeroed == IF hole /\ needs_memset_zero THEN memset(EmptyPage, 0, bytes_copied0)
                ELSE EmptyPage
      copied == memcpy(l, zeroed, bytes_copied0, src_addr, first_chunk_size)
      offset == src_addr - first_obj
      spans == bytes_copied0 = 0 /\ offset > 0
      no_end_check == \/ next_page_first_obj = Null
                      \/ /\ first_obj # next_page_first_obj
                         /\ next_page_first_obj <= pre_compact_page_end
      o == ObjAt(l, first_obj)
      first == IF ~spans THEN copied
               ELSE IF no_end_check
                    THEN VisitRefsForCompaction(l, copied, o, 0 - offset, TRUE, 0, FALSE, 0, TRUE)
                    ELSE VisitRefsForCompaction(l, copied, o, 0 - offset, TRUE, 0,
                                                TRUE, PageWords, TRUE)
      obj_size == IF spans THEN AlignUp(o.size * kAlignment, kAlignment) - offset ELSE 0
      bytes_copied == bytes_copied0 + first_chunk_size
      check_last_obj == /\ next_page_first_obj # Null
                        /\ next_page_first_obj < pre_compact_page_end
                        /\ bytes_copied = gPageSize
      diff == IF check_last_obj THEN pre_compact_page_end - next_page_first_obj ELSE 0
      chunk == SlideFirstChunk(l, [first EXCEPT !.done = bytes_copied0 + obj_size],
                               first_chunk_size - obj_size - diff)
      dest == chunk.done
      marked == {a \in l.black.black_marks :
                   a >= src_addr + first_chunk_size /\ a < pre_compact_page_end}
  IN IF spans /\ ~no_end_check /\ first_obj = next_page_first_obj THEN first
     ELSE IF check_last_obj
     THEN VisitRefsForCompaction(l, chunk, ObjAt(l, next_page_first_obj), dest,
                                 FALSE, 0, TRUE, PageWords, TRUE)
     ELSE IF bytes_copied < gPageSize
     THEN IF marked = {}
          THEN (IF needs_memset_zero THEN memset(chunk, dest, gPageSize - bytes_copied)
                ELSE chunk)
          ELSE SlideMarked(l, memcpy(l, chunk, dest, src_addr + first_chunk_size,
                                     gPageSize - bytes_copied),
                           marked, src_addr + first_chunk_size, dest)
     ELSE chunk

\* What the compaction of to-space page p writes, by the descriptors of the
\* plan: CompactPage below post_compact_end_, SlideBlackPage above (lines
\* 2391-2405, 2435-2443, 3555-3575).
next_page_first_obj(l, p) ==
  IF p + 1 < NumPages(l) THEN first_objs_moving_space_(l)[p + 1] ELSE Null

PageFunc(l, p, needs_memset_zero) ==
  IF p < moving_first_objs_count_(l)
  THEN CompactPage(l, first_objs_moving_space_(l)[p], pre_compact_offset_moving_space_(l)[p],
                   needs_memset_zero)
  ELSE SlideBlackPage(l, first_objs_moving_space_(l)[p], next_page_first_obj(l, p),
                      black_alloc_pages_first_chunk_size_(l)[p],
                      black_allocations_begin_(l) + (p - moving_first_objs_count_(l)) * gPageSize,
                      needs_memset_zero)

\* The pages of the plan, computed once per heap.
WithPages(l) ==
  l @@ [compacted |->
          [p \in {q \in 0..NumPages(l) - 1 : first_objs_moving_space_(l)[q] # Null} |->
             PageFunc(l, p, TRUE)]]

\* Lines 3555-3575: the fault handler goes by post_compact_end_.
MutatorPageFunc(l, p, needs_memset_zero) ==
  IF p * gPageSize < post_compact_end_(l)
  THEN CompactPage(l, first_objs_moving_space_(l)[p], pre_compact_offset_moving_space_(l)[p],
                   needs_memset_zero)
  ELSE SlideBlackPage(l, first_objs_moving_space_(l)[p], next_page_first_obj(l, p),
                      black_alloc_pages_first_chunk_size_(l)[p],
                      black_allocations_begin_(l) + (p * gPageSize - post_compact_end_(l)),
                      needs_memset_zero)

WithMutatorPages(l) ==
  l @@ [mutator_compacted |->
          [p \in {q \in 0..NumPages(l) - 1 : first_objs_moving_space_(l)[q] # Null} |->
             MutatorPageFunc(l, p, TRUE)]]

\* Where block b of the black allocations begins.
RECURSIVE BlockStart(_, _)
BlockStart(l, b) ==
  IF b = 1 THEN l.first_block_size * kAlignment
  ELSE BlockStart(l, b - 1) + l.blocks[b - 1].size * kAlignment

\* The heaps when the compaction pause is over.
Heaps ==
  {WithMutatorPages(WithPages(AfterClassMap(AfterBlackAllocations(AfterPrepare(AfterMarking(Layouts[i])))))) :
     i \in LayoutIds}

\* Layout l with another marking result: object i marked iff m[i].
Marked(l, m) ==
  [l EXCEPT !.objs = [i \in 1..Len(l.objs) |-> [l.objs[i] EXCEPT !.marked = m[i]]]]

\* What the marking phase can leave: whatever a live object refers to, by
\* its class or by a field, is live.
IsMarkingResult(l) ==
  \A o \in LiveObjs(l) :
    /\ o.klass # Null => \E c \in LiveObjs(l) : c.addr = o.klass
    /\ \A k \in 1..o.size - 1 : o.fields[k] # Null => \E r \in LiveObjs(l) : r.addr = o.fields[k]

\* The heaps of the layouts with every marking result.
PlanHeaps ==
  {WithMutatorPages(WithPages(AfterClassMap(AfterBlackAllocations(AfterPrepare(AfterMarking(l)))))) :
     l \in {x \in {Marked(Layouts[i], m) : i \in LayoutIds,
                                           m \in [1..Len(Layouts[1].objs) -> BOOLEAN]} :
              IsMarkingResult(x)}}

\* ------------------------------------------------------------ the threads
kMaxNumUffdWorkers == 2
kMutatorCompactionBufferCount == 2
\* kMinFromSpaceMadviseSize and the buffer pages FreeFromSpacePages retains
\* (line 2309), scaled to three pages and two pages: the buffer is more than
\* one page and less than kMinFromSpaceMadviseSize (line 2310).
kMinFromSpaceMadviseSize == 12
gBufferPages == 8

\* The faults the mutators may take in a cycle, all together.
MaxFaults == 2

GcThread == 0
\* The threads that resolve faults: the faulting mutators themselves in
\* SIGBUS mode, the userfaultfd workers otherwise.
Mutators == 1..kMaxNumUffdWorkers
Threads == {GcThread} \cup Mutators

\* A word of moving_pages_status_: the page state in the low bits, and with
\* kProcessed the from-space page that holds the compacted content.
St(s) == [state |-> s, off |-> 0]
StOff(s, o) == [state |-> s, off |-> o]

\* What a buffer page, a from-space page or a to-space page holds: the
\* compacted content of to-space page p (p >= 0), or one of these.
NoContent == -1
ZeroPage == -2
Corrupt == -3
Source == -4
Released == -5

\* One buffer for every party.
OneBuffer(l, i) == MaxPages(l)

\* The pages of compaction_buffers_map_ follow the from-space pages in the
\* numbering of the pages that can be a source of UFFDIO_COPY.
CompactionBuffer(l, i) == MaxPages(l) + i
BufferIds(l) == 0..(MaxPages(l) + kMutatorCompactionBufferCount)

VARIABLES
  layout,                         \* the heap the cycle runs on
  use_uffd_sigbus_,
  moving_pages_status_,
  compaction_in_progress_count_,
  compaction_buffer_counter_,
  last_reclaimed_page_, last_reclaimable_page_, cur_reclaimable_page_,
  last_checked_reclaim_page_idx_, class_after_obj_iter_,
  end_idx_for_mapping,
  from_space,                     \* from-space pages and compaction buffers
  to_space,                       \* what is mapped at each to-space page
  th,                             \* each thread's position and locals
  compacted,                      \* how often each page was compacted
  published,                      \* how often each page was mapped
  minor_fault_initialized_,
  state_arr,                      \* page_status_map_ of the linear-alloc space
  la,                             \* each thread's position in the linear-alloc code
  uffd_,
  uffd_initialized_,
  gHaveMremapDontunmap,
  is_zygote,                      \* Runtime::IsZygote()
  registered,                     \* the moving space is registered with uffd_
  phase,                          \* the position of RunPhases
  cycle,                          \* the collections begun
  paths,                          \* what ran in this collection, how often
  roots,                          \* the GC roots of the linear-alloc arena
  weaks,                          \* the system weaks
  linear_alloc_arenas_,           \* the arenas to visit concurrently
  marking,                        \* the marking: mark stack, bitmaps, cards, roots
  term                            \* the end of the compaction: counters, handlers, workers

reclaim_vars == <<last_reclaimed_page_, last_reclaimable_page_, cur_reclaimable_page_,
                  last_checked_reclaim_page_idx_, class_after_obj_iter_>>

linear_vars == <<minor_fault_initialized_, state_arr, la>>

moving_vars == <<layout, use_uffd_sigbus_, moving_pages_status_, compaction_in_progress_count_,
                 compaction_buffer_counter_, reclaim_vars, end_idx_for_mapping, from_space,
                 to_space, th, compacted, published>>

root_vars == <<roots, weaks, linear_alloc_arenas_>>

cycle_vars == <<uffd_, uffd_initialized_, gHaveMremapDontunmap, is_zygote, registered, phase,
                cycle, paths, root_vars, marking, term>>

vars == <<moving_vars, linear_vars, cycle_vars>>

N == NumPages(layout)
M == moving_first_objs_count_(layout)
first_obj(p) == first_objs_moving_space_(layout)[p]
State(p) == moving_pages_status_[p].state

\* The pages of the linear-alloc space, all of one arena.
LinearPages == 3

\* A thread's locals in ProcessLinearAlloc, ConcurrentlyProcessLinearAllocPage,
\* MapUpdatedLinearAllocPages (u_) and MapProcessedPages (p_).
La0 ==
  [pc |-> "idle", idx |-> 0, state |-> "kUnprocessed", faults |-> 0,
   u_state |-> 0, u_length |-> 0, u_map_len |-> 0, u_l |-> 0, u_end |-> 0,
   u_check |-> FALSE, u_free |-> FALSE, u_single |-> FALSE, u_madv |-> 0, u_madv_end |-> 0,
   u_ret |-> "idle", u_result |-> FALSE,
   p_start |-> 0, p_idx |-> 0, p_length |-> 0, p_mapped |-> 0, p_remaining |-> 0,
   p_ret |-> "idle"]

Thread0 ==
  [pc |-> "idle", idx |-> 0, page |-> Null, raw |-> St("kUnprocessed"), success |-> FALSE,
   buf |-> Null, faults |-> 0, end_idx |-> 0, length |-> 0,
   m_idx |-> 0, m_len |-> 0, m_i |-> 0, m_length |-> 0, m_from |-> 0, m_ret |-> "idle",
   m_result |-> 0,
   io_dst |-> 0, io_src |-> 0, io_len |-> 0, io_zero |-> FALSE, io_ret |-> "idle",
   f_idx |-> 0, f_end |-> 0, f_begin |-> 0, f_stale |-> FALSE, z_len |-> 0]

\* The marking when no collection has begun: the position in RunPhases,
\* whether the mutators are suspended and how often they were in this
\* collection, the phases begun, the mark bitmap of the moving space, the
\* mark stack and its capacity, the live-words bitmap and the chunk
\* histogram, how often each object was passed to UpdateLivenessInfo, the
\* cards, the roots the mutators hold, and the writes they have made.
Marking0 ==
  [pc |-> "idle", suspended |-> FALSE, pauses |-> 0, trace |-> << >>,
   moving_space_bitmap_ |-> {}, mark_stack_ |-> << >>, capacity |-> 0,
   live_words_bitmap_ |-> {}, chunk_info_vec_ |-> << >>, updated |-> << >>,
   cards |-> << >>, roots |-> {}, writes |-> 0,
   storage |-> 0, visitors |-> << >>, pushed |-> {}, failed |-> FALSE]

\* A phase of RunPhases begins (lines 792-834).
Begun(m, name) == [m EXCEPT !.trace = Append(@, name)]

\* The mutators stay suspended.
StaySuspended(m) == m

\* The end of the block of ScopedPause (line 809), and of FlipThreadRoots
\* (line 822): the mutators are resumed.
Resumed(m) == [m EXCEPT !.suspended = FALSE]

\* The bits are set in the live-words bitmap.
SetLiveBits(m, marks) == [m EXCEPT !.live_words_bitmap_ = @ \cup marks]

\* UpdateMovingSpaceBlackAllocations, line 2625: the mark bits of the first
\* objects of the black pages are set in the mark bitmap of the moving space.
SetMarkBits(m, marks) == [m EXCEPT !.moving_space_bitmap_ = @ \cup marks]

\* RunPhases up to FlipThreadRoots, lines 795-817.
BeforeFlip ==
  <<"InitializePhase", "MarkingPhase", "MarkingPause", "ReclaimPhase", "PrepareForCompaction">>

\* What ran in a collection: CompactMovingSpace<kFallbackMode>, CompactionPhase,
\* the handling of a fault.
NoPaths == [stw |-> 0, concurrent |-> 0, faults |-> 0]

\* The bit of sigbus_in_progress_count_ that says the compaction is done;
\* the bits below it count the handlers.  The counter is scaled to three bits.
kSigbusCounterCompactionDoneMask == 4

\* A mutator outside the SIGBUS handler, a worker that has not been started.
Handler0 == [pc |-> "out", prev |-> 0, compaction_done_ |-> FALSE]

\* The constructor, lines 438-445 and 540-543: the counter of the handlers
\* has the done bit set, no worker runs, the termination page was read and
\* so is mapped.  pc is the position of the GC thread, count its local of
\* line 4114, msg the fault on the termination page that no worker has read
\* yet, cycles the compactions begun.
Term0 ==
  [pc |-> "idle",
   sigbus_in_progress_count_ |-> kSigbusCounterCompactionDoneMask,
   thread_pool_counter_ |-> 0,
   gKernelHasFaultRetry |-> FALSE,
   count |-> 0,
   termination_page |-> "mapped",
   msg |-> FALSE,
   h |-> [m \in Mutators |-> Handler0],
   cycles |-> 0]

\* CompactionPause, lines 3146-3149, and of KernelPreparation lines
\* 1109-1123: the counter of the handlers is reset, or the workers are
\* started and counted.
StartCompaction(t) ==
  IF use_uffd_sigbus_
  THEN [t EXCEPT !.pc = "compacting", !.cycles = @ + 1, !.sigbus_in_progress_count_ = 0]
  ELSE [t EXCEPT !.pc = "compacting", !.cycles = @ + 1,
                 !.thread_pool_counter_ = kMaxNumUffdWorkers,
                 !.h = [m \in Mutators |-> [Handler0 EXCEPT !.pc = "read"]]]

\* RunPhases has come to CompactionPhase (line 829) with a descriptor, in a
\* process that is not the zygote.
InCompactionPhase ==
  /\ uffd_ = "fd" /\ uffd_initialized_ = TRUE /\ gHaveMremapDontunmap = TRUE
  /\ is_zygote = FALSE /\ registered = TRUE /\ phase = "resumed" /\ cycle = 1
  /\ paths = [NoPaths EXCEPT !.concurrent = 1]
  /\ roots = << >> /\ weaks = << >> /\ linear_alloc_arenas_ = {}
  /\ marking = Marking0
  /\ term = StartCompaction(Term0)

\* The state when the compaction pause is over (CompactionPause, then the
\* start of CompactionPhase): every page unprocessed, nothing mapped, the
\* from-space holding the heap as it was, only buffer 0 handed out.
Init ==
  /\ layout \in Heaps
  /\ use_uffd_sigbus_ \in BOOLEAN
  /\ moving_pages_status_ = [p \in 0..NumPages(layout) - 1 |-> St("kUnprocessed")]
  /\ compaction_in_progress_count_ = 0
  /\ compaction_buffer_counter_ = 1
  /\ last_reclaimed_page_ = 0 /\ last_reclaimable_page_ = 0 /\ cur_reclaimable_page_ = 0
  /\ last_checked_reclaim_page_idx_ = 0 /\ class_after_obj_iter_ = 1
  /\ end_idx_for_mapping = 0
  /\ from_space = [b \in BufferIds(layout) |->
                     IF b < MaxPages(layout) THEN Source ELSE NoContent]
  /\ to_space = [p \in 0..NumPages(layout) |-> NoContent]
  /\ th = [t \in Threads |->
             IF t = GcThread THEN [Thread0 EXCEPT !.pc = "start"]
             ELSE [Thread0 EXCEPT !.buf = IF use_uffd_sigbus_ THEN Null
                                          ELSE CompactionBuffer(layout, t)]]
  /\ compacted = [p \in 0..NumPages(layout) - 1 |-> 0]
  /\ published = [p \in 0..NumPages(layout) |-> 0]
  /\ minor_fault_initialized_ = FALSE
  /\ state_arr = [q \in 0..LinearPages - 1 |-> "kUnprocessed"]
  /\ la = [t \in Threads |-> La0]
  /\ InCompactionPhase

gc == th[GcThread]
reserve_page == CompactionBuffer(layout, 0)

\* ------------------------------------------------- UFFDIO_COPY / ZEROPAGE
\* CopyIoctl and ZeropageIoctl: the kernel maps the pages of the range in
\* order; it may stop early with EAGAIN after at least one page, and the
\* loop then asks again for the rest.  A page that is mapped already is
\* left as it is.
StartIoctl(rec, dst, src, len, zero, ret) ==
  [rec EXCEPT !.pc = "ioctl", !.io_dst = dst, !.io_src = src, !.io_len = len,
              !.io_zero = zero, !.io_ret = ret]

Install(t, k) ==
  /\ to_space' = [p \in DOMAIN to_space |->
                    IF /\ p >= th[t].io_dst /\ p < th[t].io_dst + k
                       /\ to_space[p] = NoContent /\ th[GcThread].pc # "done"
                    THEN (IF th[t].io_zero THEN ZeroPage
                          ELSE from_space[th[t].io_src + (p - th[t].io_dst)])
                    ELSE to_space[p]]
  /\ published' = [p \in DOMAIN published |->
                     IF p >= th[t].io_dst /\ p < th[t].io_dst + k
                     THEN published[p] + 1 ELSE published[p]]

IoctlDone(t) ==
  /\ th[t].pc = "ioctl"
  /\ Install(t, th[t].io_len)
  /\ th' = [th EXCEPT ![t].pc = th[t].io_ret, ![t].io_dst = 0, ![t].io_src = 0,
                      ![t].io_len = 0, ![t].io_zero = FALSE, ![t].io_ret = "idle"]
  /\ UNCHANGED <<cycle_vars, linear_vars, layout, use_uffd_sigbus_, moving_pages_status_,
                 compaction_in_progress_count_, compaction_buffer_counter_, reclaim_vars,
                 end_idx_for_mapping, from_space, compacted>>

\* A retry of the whole range.
RetryAll(rec, k) == rec

\* Lines 2068-2070 and 2095-2098: the values are adjusted by what was done;
\* uffdio_zeropage has no source.
Retry(rec, k) ==
  [rec EXCEPT !.io_dst = @ + k, !.io_src = IF rec.io_zero THEN @ ELSE @ + k, !.io_len = @ - k]

IoctlEagain(t) ==
  /\ th[t].pc = "ioctl"
  /\ \E k \in 1..th[t].io_len - 1 :
       /\ Install(t, k)
       /\ th' = [th EXCEPT ![t] = Retry(th[t], k)]
  /\ UNCHANGED <<cycle_vars, linear_vars, layout, use_uffd_sigbus_, moving_pages_status_,
                 compaction_in_progress_count_, compaction_buffer_counter_, reclaim_vars,
                 end_idx_for_mapping, from_space, compacted>>

\* ---------------------------------------------------- MapMovingSpacePages
StartMap(rec, arr_idx, arr_len, ret) ==
  [rec EXCEPT !.pc = "map_first", !.m_idx = arr_idx, !.m_len = arr_len, !.m_ret = ret]

ReturnMap(rec, result) ==
  [rec EXCEPT !.pc = rec.m_ret, !.m_result = result, !.m_idx = 0, !.m_len = 0, !.m_i = 0,
              !.m_length = 0, !.m_from = 0, !.m_ret = "idle"]

\* Lines 2466-2470: nothing to do unless the first page is kProcessed.
MapFirst(t) ==
  /\ th[t].pc = "map_first"
  /\ th' = [th EXCEPT ![t] =
              IF State(th[t].m_idx) # "kProcessed" THEN ReturnMap(th[t], 0)
              ELSE [th[t] EXCEPT !.pc = "map_claim", !.m_i = th[t].m_idx, !.m_length = 0,
                                 !.m_from = moving_pages_status_[th[t].m_idx].off]]
  /\ UNCHANGED <<cycle_vars, linear_vars, layout, use_uffd_sigbus_, moving_pages_status_,
                 compaction_in_progress_count_, compaction_buffer_counter_, reclaim_vars,
                 end_idx_for_mapping, from_space, to_space, compacted, published>>

\* A claim that does not look at the state of the page.
MapsAnyPage(word) == TRUE

\* The load and the compare_exchange_strong of lines 2478-2485: the page is
\* kProcessed, whatever from-space page its word names.
MapWinsPage(word) == word.state = "kProcessed"

\* Lines 2476-2490: one iteration of the claiming loop, and when the loop
\* ends the call of CopyIoctl, or the return with nothing claimed.
MapClaim(t) ==
  /\ th[t].pc = "map_claim"
  /\ LET i == th[t].m_i
         won == /\ i < th[t].m_len
                /\ MapWinsPage(moving_pages_status_[i])
         length == IF won THEN th[t].m_length + gPageSize ELSE th[t].m_length
         more == won /\ i + 1 < th[t].m_len
     IN /\ moving_pages_status_' =
             IF won THEN [moving_pages_status_ EXCEPT ![i] = St("kProcessedAndMapping")]
             ELSE moving_pages_status_
        /\ th' = [th EXCEPT ![t] =
                    IF more THEN [th[t] EXCEPT !.m_i = i + 1, !.m_length = length]
                    ELSE IF length > 0
                    THEN StartIoctl([th[t] EXCEPT !.m_i = th[t].m_idx, !.m_length = length],
                                    th[t].m_idx, th[t].m_from, DivideByPageSize(length),
                                    FALSE, "map_store")
                    ELSE ReturnMap(th[t], length)]
  /\ UNCHANGED <<cycle_vars, linear_vars, layout, use_uffd_sigbus_, compaction_in_progress_count_,
                 compaction_buffer_counter_, reclaim_vars, end_idx_for_mapping, from_space,
                 to_space, compacted, published>>

\* Lines 2491-2497: the loop that stores kProcessedAndMapped, counting
\* length down, and the return of length.
MapStore(t) ==
  /\ th[t].pc = "map_store"
  /\ moving_pages_status_' = [moving_pages_status_ EXCEPT ![th[t].m_i] = St("kProcessedAndMapped")]
  /\ th' = [th EXCEPT ![t] =
              IF th[t].m_length - gPageSize > 0
              THEN [th[t] EXCEPT !.m_i = @ + 1, !.m_length = @ - gPageSize]
              ELSE ReturnMap(th[t], th[t].m_length - gPageSize)]
  /\ UNCHANGED <<cycle_vars, linear_vars, layout, use_uffd_sigbus_, compaction_in_progress_count_,
                 compaction_buffer_counter_, reclaim_vars, end_idx_for_mapping, from_space,
                 to_space, compacted, published>>

\* ------------------------------------------------------ running the func
\* The from-space pages the compaction of page p reads.
ReadPages(l, p) == {w \div PageWords : w \in l.compacted[p].reads}

\* The compaction of page p into buffer b yields p's content when every page
\* it reads still holds the heap, and garbage otherwise.
FuncResult(p, b) ==
  IF /\ \A f \in ReadPages(layout, p) : from_space[f] = Source /\ f # b
     /\ ~layout.compacted[p].bad
  THEN p ELSE Corrupt

\* A func that writes nothing.
NoFunc(p, b) == UNCHANGED <<from_space, compacted>>

RunFunc(p, b) ==
  /\ from_space' = [from_space EXCEPT ![b] = FuncResult(p, b)]
  /\ compacted' = [compacted EXCEPT ![p] = @ + 1]

\* --------------------------------------------------- the GC thread's loop
\* CompactMovingSpace, lines 2361-2378; end_idx_for_mapping is what line 2417
\* gives it when the black pages are done.
GcInit ==
  /\ gc.pc = "start"
  /\ LET pre_compact_page == black_allocations_begin_(layout) + black_page_count_(layout) * gPageSize
     IN /\ last_reclaimed_page_' = pre_compact_page
        /\ last_reclaimable_page_' = pre_compact_page
        /\ cur_reclaimable_page_' = pre_compact_page
  /\ last_checked_reclaim_page_idx_' = N
  /\ class_after_obj_iter_' = 1
  /\ end_idx_for_mapping' = M
  /\ th' = [th EXCEPT ![GcThread].pc = "page", ![GcThread].idx = N,
                      ![GcThread].page = reserve_page]
  /\ UNCHANGED <<cycle_vars, linear_vars, layout, use_uffd_sigbus_, moving_pages_status_,
                 compaction_in_progress_count_, compaction_buffer_counter_,
                 from_space, to_space, compacted, published>>

\* A compare-and-swap that takes the page whatever its state.
TakesAnyPage(word) == TRUE

\* The compare_exchange_strong of DoPageCompactionWithStateChange (line 2122).
GcWinsPage(word) == word = St("kUnprocessed")

StartFree(rec, end) == [rec EXCEPT !.pc = "free_scan", !.f_end = end]

\* What follows DoPageCompactionWithStateChange: lines 2408-2410 for a black
\* page, lines 2444-2450 for a page of the compacted part.
AfterPage(rec, success) ==
  IF rec.idx >= M
  THEN IF rec.idx % DivideByPageSize(kMinFromSpaceMadviseSize) = 0 THEN StartFree(rec, 0)
       ELSE [rec EXCEPT !.pc = "page"]
  ELSE IF (~success \/ rec.page = reserve_page) /\ end_idx_for_mapping - rec.idx > 1
       THEN StartMap(StartFree(rec, end_idx_for_mapping), rec.idx + 1, end_idx_for_mapping,
                     "free_scan")
       ELSE StartFree(rec, end_idx_for_mapping)

\* One iteration of the loop over the black pages (lines 2381-2413), up to
\* the CAS of DoPageCompactionWithStateChange.
\* The page after the next one.
SkipsAPage(idx) == IF idx >= 2 THEN idx - 2 ELSE idx - 1

\* idx-- at the top of both loops of CompactMovingSpace, lines 2381 and 2419.
NextPageIdx(idx) == idx - 1

GcBlackPage ==
  /\ gc.pc = "page"
  /\ gc.idx > M
  /\ LET i == NextPageIdx(gc.idx)
         rec == [gc EXCEPT !.idx = i]
     IN IF first_obj(i) = Null
        THEN /\ th' = [th EXCEPT ![GcThread] = rec]
             /\ UNCHANGED moving_pages_status_
        ELSE IF GcWinsPage(moving_pages_status_[i])
        THEN /\ moving_pages_status_' =
                  [moving_pages_status_ EXCEPT ![i] = St("kProcessingAndMapping")]
             /\ th' = [th EXCEPT ![GcThread] = [rec EXCEPT !.pc = "func"]]
        ELSE /\ th' = [th EXCEPT ![GcThread] = AfterPage(rec, FALSE)]
             /\ UNCHANGED moving_pages_status_
  /\ UNCHANGED <<cycle_vars, linear_vars, layout, use_uffd_sigbus_, compaction_in_progress_count_,
                 compaction_buffer_counter_, reclaim_vars, end_idx_for_mapping, from_space,
                 to_space, compacted, published>>

\* One iteration of the loop over the compacted pages (lines 2418-2443), up
\* to the CAS: the buffer is a reclaimable from-space page when there is
\* one, and the reserved page otherwise.
GcMovingPage ==
  /\ gc.pc = "page"
  /\ gc.idx > 0 /\ gc.idx <= M
  /\ LET i == NextPageIdx(gc.idx)
         reclaimable == cur_reclaimable_page_ > last_reclaimable_page_
         page == IF reclaimable THEN DivideByPageSize(cur_reclaimable_page_ - gPageSize)
                 ELSE reserve_page
         desired == IF page = reserve_page THEN "kProcessingAndMapping" ELSE "kProcessing"
         rec == [gc EXCEPT !.idx = i, !.page = page]
     IN /\ cur_reclaimable_page_' = IF reclaimable THEN cur_reclaimable_page_ - gPageSize
                                    ELSE cur_reclaimable_page_
        /\ IF GcWinsPage(moving_pages_status_[i])
           THEN /\ moving_pages_status_' = [moving_pages_status_ EXCEPT ![i] = St(desired)]
                /\ th' = [th EXCEPT ![GcThread] = [rec EXCEPT !.pc = "func"]]
           ELSE /\ th' = [th EXCEPT ![GcThread] = AfterPage(rec, FALSE)]
                /\ UNCHANGED moving_pages_status_
  /\ UNCHANGED <<cycle_vars, linear_vars, layout, use_uffd_sigbus_, compaction_in_progress_count_,
                 compaction_buffer_counter_, last_reclaimed_page_, last_reclaimable_page_,
                 last_checked_reclaim_page_idx_, class_after_obj_iter_, end_idx_for_mapping,
                 from_space, to_space, compacted, published>>

\* func() of DoPageCompactionWithStateChange (line 2124), and the call of
\* CopyIoctl when the page is mapped at once (line 2127).
GcFunc ==
  /\ gc.pc = "func"
  /\ RunFunc(gc.idx, gc.page)
  /\ th' = [th EXCEPT ![GcThread] =
              IF gc.page = reserve_page
              THEN StartIoctl(gc, gc.idx, gc.page, 1, FALSE, "gc_store_mapped")
              ELSE [gc EXCEPT !.pc = "store_processed"]]
  /\ UNCHANGED <<cycle_vars, linear_vars, layout, use_uffd_sigbus_, moving_pages_status_,
                 compaction_in_progress_count_, compaction_buffer_counter_, reclaim_vars,
                 end_idx_for_mapping, to_space, published>>

\* Line 2130, and what follows the return.
GcStoreMapped ==
  /\ gc.pc = "gc_store_mapped"
  /\ moving_pages_status_' = [moving_pages_status_ EXCEPT ![gc.idx] = St("kProcessedAndMapped")]
  /\ th' = [th EXCEPT ![GcThread] = AfterPage(gc, TRUE)]
  /\ UNCHANGED <<cycle_vars, linear_vars, layout, use_uffd_sigbus_, compaction_in_progress_count_,
                 compaction_buffer_counter_, reclaim_vars, end_idx_for_mapping, from_space,
                 to_space, compacted, published>>

\* Lines 2137-2141, and what follows the return.
GcStoreProcessed ==
  /\ gc.pc = "store_processed"
  /\ moving_pages_status_' = [moving_pages_status_ EXCEPT ![gc.idx] = StOff("kProcessed", gc.page)]
  /\ th' = [th EXCEPT ![GcThread] = AfterPage(gc, TRUE)]
  /\ UNCHANGED <<cycle_vars, linear_vars, layout, use_uffd_sigbus_, compaction_in_progress_count_,
                 compaction_buffer_counter_, reclaim_vars, end_idx_for_mapping, from_space,
                 to_space, compacted, published>>

\* Lines 2453-2456.
GcMovingDone ==
  /\ gc.pc = "page"
  /\ gc.idx = 0 /\ gc.idx <= M
  /\ th' = [th EXCEPT ![GcThread] =
              IF end_idx_for_mapping > 0 THEN StartMap(gc, gc.idx, end_idx_for_mapping, "wait")
              ELSE [gc EXCEPT !.pc = "wait"]]
  /\ UNCHANGED <<cycle_vars, linear_vars, layout, use_uffd_sigbus_, moving_pages_status_,
                 compaction_in_progress_count_, compaction_buffer_counter_, reclaim_vars,
                 end_idx_for_mapping, from_space, to_space, compacted, published>>

\* A wait that is over at once.
NoWait == TRUE

\* The condition the loop of lines 4065-4067 waits for.
MutatorsAreOut == compaction_in_progress_count_ = 0

\* CompactionPhase, the wait for the mutators that are in the middle of a
\* page (lines 4065-4067).
GcWait ==
  /\ gc.pc = "wait"
  /\ MutatorsAreOut
  /\ th' = [th EXCEPT ![GcThread].pc = "unregister"]
  /\ UNCHANGED <<cycle_vars, linear_vars, layout, use_uffd_sigbus_, moving_pages_status_,
                 compaction_in_progress_count_, compaction_buffer_counter_, reclaim_vars,
                 end_idx_for_mapping, from_space, to_space, compacted, published>>

\* ------------------------------------------------------ FreeFromSpacePages
\* A scan that does not stop at the pages the mutators are compacting.
ScanToCurrent(idx, cur_page_idx) == cur_page_idx

\* Lines 2182-2195: the to-space page up to which compaction has finished.
\* The page states only move forward and a page that was compacted by
\* somebody does not become kMutatorProcessing again, so the loads of the loop
\* see what one load of them all sees at the time of the last.
RECURSIVE FreeScanIdx(_, _)
FreeScanIdx(idx, cur_page_idx) ==
  IF idx > cur_page_idx /\ State(idx - 1) # "kMutatorProcessing"
  THEN FreeScanIdx(idx - 1, cur_page_idx) ELSE idx

\* The first page i in [from, to) whose first object is not first, or to.
RECURSIVE NextOtherFirstObj(_, _, _, _)
NextOtherFirstObj(l, first, i, to) ==
  IF i < to /\ first_objs_moving_space_(l)[i] = first
  THEN NextOtherFirstObj(l, first, i + 1, to) ELSE i

\* Lines 2213-2231 and 2233-2234.
IdxAddr(l, idx) ==
  IF idx >= moving_first_objs_count_(l)
  THEN black_allocations_begin_(l) + (idx - moving_first_objs_count_(l)) * gPageSize
  ELSE pre_compact_offset_moving_space_(l)[idx] * kAlignment

\* Lines 2213-2255: the first from-space address that may be freed when the
\* to-space pages from idx on are done.
ReclaimBegin(l, idx) ==
  LET first == first_objs_moving_space_(l)[idx]
      idx_addr == IdxAddr(l, idx)
  IN IF idx >= moving_first_objs_count_(l)
     THEN IF first # Null /\ first < idx_addr
          THEN LET idx_len == moving_first_objs_count_(l) + black_page_count_(l)
                   i == NextOtherFirstObj(l, first, idx + 1, idx_len)
               IN IF i >= idx_len THEN idx_addr
                  ELSE IF first_objs_moving_space_(l)[i] # Null
                  THEN AlignUp(first_objs_moving_space_(l)[i], gPageSize)
                  ELSE black_allocations_begin_(l) + (i - moving_first_objs_count_(l)) * gPageSize
          ELSE idx_addr
     ELSE IF first < idx_addr
          THEN LET i == NextOtherFirstObj(l, first, idx + 1, moving_first_objs_count_(l))
               IN IF i >= moving_first_objs_count_(l)
                  THEN AlignUp(black_allocations_begin_(l), gPageSize)
                  ELSE AlignUp(first_objs_moving_space_(l)[i], gPageSize)
          ELSE AlignUp(idx_addr, gPageSize)

\* A reclaim that the classes do not hold back.
NoClassLoop(l, iter, reclaim_begin, idx_addr, stale) ==
  [iter |-> iter, reclaim_begin |-> reclaim_begin, stale |-> stale]

\* Lines 2261-2285: the classes that are above their objects hold the
\* reclaim back.  The size of the class is read from the from-space copy,
\* stale tells that the copy was gone.
RECURSIVE ClassLoop(_, _, _, _, _)
ClassLoop(l, iter, reclaim_begin, idx_addr, stale) ==
  IF iter > Len(l.class_after_obj)
  THEN [iter |-> iter, reclaim_begin |-> reclaim_begin, stale |-> stale]
  ELSE LET klass == l.class_after_obj[iter][1]
           obj_addr == l.class_after_obj[iter][2]
           klass_end == klass + ObjAt(l, klass).size * kAlignment
           gone == \E w \in klass..(klass_end - 1) :
                      from_space[DivideByPageSize(w)] # Source
       IN IF klass_end >= reclaim_begin
          THEN IF obj_addr < idx_addr
               THEN [iter |-> iter, reclaim_begin |-> AlignUp(klass_end, gPageSize),
                     stale |-> stale \/ gone]
               ELSE ClassLoop(l, iter + 1, reclaim_begin, idx_addr, stale \/ gone)
          ELSE [iter |-> iter, reclaim_begin |-> reclaim_begin, stale |-> stale \/ gone]

ReturnFree(rec, ret) ==
  [rec EXCEPT !.pc = "page", !.f_idx = 0, !.f_end = 0, !.f_begin = 0, !.m_result = 0]

\* The range is released without mapping what was compacted into it.
MadvisesAtOnce(cur_page_idx, end) == FALSE

\* Line 2290, in copy mode: there are pages that are compacted and not yet
\* mapped.
MapsBeforeMadvise(cur_page_idx, end) == cur_page_idx < end

\* Lines 2182-2288 and, when there is too little to free, 2319-2322.
FreeScan ==
  /\ gc.pc = "free_scan"
  /\ LET idx == FreeScanIdx(last_checked_reclaim_page_idx_, gc.idx)
         cl == ClassLoop(layout, class_after_obj_iter_, ReclaimBegin(layout, idx),
                         IdxAddr(layout, idx), gc.f_stale)
         size == last_reclaimed_page_ - cl.reclaim_begin
         rec == [gc EXCEPT !.f_idx = idx, !.f_begin = cl.reclaim_begin, !.f_stale = cl.stale]
     IN IF idx = last_checked_reclaim_page_idx_
        THEN /\ th' = [th EXCEPT ![GcThread] = ReturnFree(gc, FALSE)]
             /\ UNCHANGED reclaim_vars
        ELSE /\ class_after_obj_iter_' = cl.iter
             /\ IF size > kMinFromSpaceMadviseSize
                THEN /\ th' = [th EXCEPT ![GcThread] =
                                 IF MapsBeforeMadvise(gc.idx, gc.f_end)
                                 THEN StartMap(rec, gc.idx, gc.f_end, "free_wait")
                                 ELSE [rec EXCEPT !.pc = "free_madvise"]]
                     /\ UNCHANGED <<last_reclaimed_page_, last_reclaimable_page_,
                                    cur_reclaimable_page_, last_checked_reclaim_page_idx_>>
                ELSE /\ last_reclaimable_page_' = cl.reclaim_begin
                     /\ last_checked_reclaim_page_idx_' = idx
                     /\ th' = [th EXCEPT ![GcThread] = ReturnFree(rec, FALSE)]
                     /\ UNCHANGED <<last_reclaimed_page_, cur_reclaimable_page_>>
  /\ UNCHANGED <<cycle_vars, linear_vars, layout, use_uffd_sigbus_, moving_pages_status_,
                 compaction_in_progress_count_, compaction_buffer_counter_,
                 end_idx_for_mapping, from_space, to_space, compacted, published>>

\* Lines 2296-2305: the pages that MapMovingSpacePages left to somebody else
\* have to be mapped.  kProcessedAndMapped is final, so the waits for the
\* pages one after another end when all of them are mapped.
FreeWait ==
  /\ gc.pc = "free_wait"
  /\ \A i \in (gc.idx + DivideByPageSize(gc.m_result))..(gc.f_end - 1) :
       State(i) = "kProcessedAndMapped"
  /\ th' = [th EXCEPT ![GcThread].pc = "free_madvise", ![GcThread].m_result = 0]
  /\ UNCHANGED <<cycle_vars, linear_vars, layout, use_uffd_sigbus_, moving_pages_status_,
                 compaction_in_progress_count_, compaction_buffer_counter_, reclaim_vars,
                 end_idx_for_mapping, from_space, to_space, compacted, published>>

\* Lines 2306-2322: all but gBufferPages of the range goes back to the
\* kernel; and line 2451, what the caller does with true.
FreeMadvise ==
  /\ gc.pc = "free_madvise"
  /\ LET size == (last_reclaimed_page_ - gc.f_begin) - gBufferPages
         addr == last_reclaimed_page_ - size
         ret == gc.idx < gc.f_end
     IN /\ from_space' = [b \in DOMAIN from_space |->
                            IF b >= DivideByPageSize(addr) /\ b < DivideByPageSize(addr + size)
                            THEN Released ELSE from_space[b]]
        /\ last_reclaimed_page_' = addr
        /\ cur_reclaimable_page_' = addr
        /\ end_idx_for_mapping' = IF ret THEN gc.idx ELSE end_idx_for_mapping
        /\ th' = [th EXCEPT ![GcThread] = ReturnFree(gc, ret)]
  /\ last_reclaimable_page_' = gc.f_begin
  /\ last_checked_reclaim_page_idx_' = gc.f_idx
  /\ UNCHANGED <<cycle_vars, linear_vars, layout, use_uffd_sigbus_, moving_pages_status_,
                 compaction_in_progress_count_, compaction_buffer_counter_,
                 class_after_obj_iter_, to_space, compacted, published>>

\* CompactionPhase, after the wait: the moving space is unregistered and the
\* from-space is released (lines 4068-4097).
GcUnregister ==
  /\ gc.pc = "unregister"
  /\ from_space' = [b \in DOMAIN from_space |->
                      IF b < MaxPages(layout) THEN Released ELSE from_space[b]]
  /\ th' = [th EXCEPT ![GcThread].pc = "done", ![GcThread].idx = 0, ![GcThread].page = Null]
  /\ UNCHANGED <<cycle_vars, linear_vars, layout, use_uffd_sigbus_, moving_pages_status_,
                 compaction_in_progress_count_, compaction_buffer_counter_, reclaim_vars,
                 end_idx_for_mapping, to_space, compacted, published>>

GcStep ==
  \/ GcInit \/ GcBlackPage \/ GcMovingPage \/ GcFunc \/ GcStoreMapped \/ GcStoreProcessed
  \/ GcMovingDone \/ GcWait \/ FreeScan \/ FreeWait \/ FreeMadvise \/ GcUnregister

\* ------------------------------------------- ConcurrentlyProcessMovingPage
\* The faults taken so far.
RECURSIVE SumFaults(_)
SumFaults(ts) ==
  IF ts = {} THEN 0
  ELSE LET t == CHOOSE x \in ts : TRUE IN th[t].faults + SumFaults(ts \ {t})

\* The TLAB of thread h after Thread::AdjustTlab (line 773), and none for a
\* worker of the thread pool.
TlabOf(h) ==
  {[start |-> BlockStart(layout, b) - black_objs_slide_diff_(layout),
    end |-> BlockStart(layout, b) + layout.blocks[b].size * kAlignment
            - black_objs_slide_diff_(layout)] :
     b \in {c \in 1..Len(layout.blocks) : use_uffd_sigbus_ /\ layout.blocks[c].owner = h}}

\* Every page from the fault page to the end of the used pages.
ToTheEnd(h, page_idx) == NumPages(layout)

\* Lines 3480-3484.
ZeroEndIdx(h, page_idx) ==
  LET fault_page == page_idx * gPageSize
      mine == {tl \in TlabOf(h) : ~(fault_page < tl.start \/ fault_page >= AlignDown(tl.end, gPageSize))}
      end == IF mine = {} THEN fault_page + gPageSize
             ELSE AlignDown((CHOOSE tl \in mine : TRUE).end, gPageSize)
  IN page_idx + DivideByPageSize(end - fault_page)

Return(rec) ==
  [Thread0 EXCEPT !.buf = rec.buf, !.faults = rec.faults]

\* A fault on to-space page p reaches the handler: lines 3463-3474, 3476-3485
\* and the load of line 3508.
MutFault(h) ==
  /\ th[h].pc = "idle"
  /\ gc.pc # "done"
  /\ SumFaults(Mutators) < MaxFaults
  /\ \E p \in 0..N :
       LET rec == [th[h] EXCEPT !.idx = p, !.faults = @ + 1]
       IN th' = [th EXCEPT ![h] =
                   IF p >= N
                   THEN StartIoctl(rec, p, 0, 1, TRUE, "return")
                   ELSE IF first_obj(p) = Null
                   THEN [rec EXCEPT !.pc = "z_claim", !.end_idx = ZeroEndIdx(h, p)]
                   ELSE [rec EXCEPT !.pc = "loop", !.raw = moving_pages_status_[p]]]
  /\ UNCHANGED <<cycle_vars, linear_vars, layout, use_uffd_sigbus_, moving_pages_status_,
                 compaction_in_progress_count_, compaction_buffer_counter_, reclaim_vars,
                 end_idx_for_mapping, from_space, to_space, compacted, published>>

MutReturn(h) ==
  /\ th[h].pc = "return"
  /\ th' = [th EXCEPT ![h] = Return(th[h])]
  /\ UNCHANGED <<cycle_vars, linear_vars, layout, use_uffd_sigbus_, moving_pages_status_,
                 compaction_in_progress_count_, compaction_buffer_counter_, reclaim_vars,
                 end_idx_for_mapping, from_space, to_space, compacted, published>>

\* One iteration of the loop of lines 3487-3498, and what follows it when it
\* ends: the ioctl of line 3500, or the return without one.
ZClaim(h) ==
  /\ th[h].pc = "z_claim"
  /\ LET i == th[h].idx + DivideByPageSize(th[h].length)
         won == i < th[h].end_idx /\ moving_pages_status_[i] = St("kUnprocessed")
         length == IF won THEN th[h].length + gPageSize ELSE th[h].length
         more == won /\ i + 1 < th[h].end_idx
     IN /\ moving_pages_status_' =
             IF won THEN [moving_pages_status_ EXCEPT ![i] = St("kProcessedAndMapping")]
             ELSE moving_pages_status_
        /\ th' = [th EXCEPT ![h] =
                    IF more THEN [th[h] EXCEPT !.length = length]
                    ELSE IF length > 0
                    THEN StartIoctl([th[h] EXCEPT !.length = length], th[h].idx, 0,
                                    DivideByPageSize(length), TRUE, "z_store")
                    ELSE Return(th[h])]
  /\ UNCHANGED <<cycle_vars, linear_vars, layout, use_uffd_sigbus_, compaction_in_progress_count_,
                 compaction_buffer_counter_, reclaim_vars, end_idx_for_mapping, from_space,
                 to_space, compacted, published>>

\* A handler that sets the fault page alone to kProcessedAndMapped.
StoreFaultPage(h) ==
  /\ th[h].pc = "z_store"
  /\ moving_pages_status_' =
       [moving_pages_status_ EXCEPT ![th[h].idx] = St("kProcessedAndMapped")]
  /\ th' = [th EXCEPT ![h] = Return(th[h])]
  /\ UNCHANGED <<cycle_vars, linear_vars, layout, use_uffd_sigbus_, compaction_in_progress_count_,
                 compaction_buffer_counter_, reclaim_vars, end_idx_for_mapping, from_space,
                 to_space, compacted, published>>

\* Lines 3501-3504, one store.
ZStore(h) ==
  /\ th[h].pc = "z_store"
  /\ moving_pages_status_' =
       [moving_pages_status_ EXCEPT ![th[h].idx + DivideByPageSize(th[h].z_len)] =
                                      St("kProcessedAndMapped")]
  /\ th' = [th EXCEPT ![h] =
              IF th[h].z_len + gPageSize < th[h].length
              THEN [th[h] EXCEPT !.z_len = @ + gPageSize]
              ELSE Return(th[h])]
  /\ UNCHANGED <<cycle_vars, linear_vars, layout, use_uffd_sigbus_, compaction_in_progress_count_,
                 compaction_buffer_counter_, reclaim_vars, end_idx_for_mapping, from_space,
                 to_space, compacted, published>>

Busy(state) ==
  state \in {"kProcessing", "kMutatorProcessing", "kProcessingAndMapping", "kProcessedAndMapping"}

\* A handler that never waits.
NeverWaits == FALSE

\* A handler that waits in both modes.
AlwaysWaits == TRUE

\* Line 3516: with SIGBUS the handler waits for a page somebody is working
\* on to be mapped, a worker of the thread pool leaves.
WaitsForMapping == use_uffd_sigbus_

\* Line 3523: after the back-off the state of the page is read again.
Reload(h) == moving_pages_status_[th[h].idx]

\* Lines 3514-3524: somebody is working on the page.
MutBusy(h) ==
  /\ th[h].pc = "loop"
  /\ Busy(th[h].raw.state)
  /\ th' = [th EXCEPT ![h] =
              IF ~WaitsForMapping THEN Return(th[h])
              ELSE [th[h] EXCEPT !.raw = Reload(h)]]
  /\ UNCHANGED <<cycle_vars, linear_vars, layout, use_uffd_sigbus_, moving_pages_status_,
                 compaction_in_progress_count_, compaction_buffer_counter_, reclaim_vars,
                 end_idx_for_mapping, from_space, to_space, compacted, published>>

\* A handler that takes a processed page for a mapped one.
ProcessedIsEnough(state) == state \in {"kProcessed", "kProcessedAndMapped"}

\* Line 3524: the page is mapped, there is nothing to do.
NothingToDo(state) == state = "kProcessedAndMapped"

\* Lines 3524-3527.
MutMapped(h) ==
  /\ th[h].pc = "loop"
  /\ NothingToDo(th[h].raw.state)
  /\ th' = [th EXCEPT ![h] = Return(th[h])]
  /\ UNCHANGED <<cycle_vars, linear_vars, layout, use_uffd_sigbus_, moving_pages_status_,
                 compaction_in_progress_count_, compaction_buffer_counter_, reclaim_vars,
                 end_idx_for_mapping, from_space, to_space, compacted, published>>

\* Line 3532: ScopedInProgressCount.
MutEnter(h) ==
  /\ th[h].pc = "loop"
  /\ th[h].raw.state \in {"kUnprocessed", "kProcessed"}
  /\ compaction_in_progress_count_' = compaction_in_progress_count_ + 1
  /\ th' = [th EXCEPT ![h].pc = "cas"]
  /\ UNCHANGED <<cycle_vars, linear_vars, layout, use_uffd_sigbus_, moving_pages_status_, compaction_buffer_counter_,
                 reclaim_vars, end_idx_for_mapping, from_space, to_space, compacted,
                 published>>

\* A compare-and-swap that does not compare.
BlindCas(expected, word) == TRUE

\* The compare_exchange_strong of line 3538.
MutatorWinsPage(expected, word) == word = expected

\* Lines 3537-3541 and, when the page is not this thread's to compact,
\* 3594-3605.
MutCas(h) ==
  /\ th[h].pc = "cas"
  /\ LET i == th[h].idx
         won == /\ th[h].raw.state = "kUnprocessed"
                /\ MutatorWinsPage(th[h].raw, moving_pages_status_[i])
         raw == IF th[h].raw.state = "kUnprocessed" THEN moving_pages_status_[i] ELSE th[h].raw
     IN /\ moving_pages_status_' =
             IF won THEN [moving_pages_status_ EXCEPT ![i] = St("kMutatorProcessing")]
             ELSE moving_pages_status_
        /\ th' = [th EXCEPT ![h] =
                    IF won THEN [th[h] EXCEPT !.pc = IF th[h].buf = Null THEN "alloc" ELSE "func"]
                    ELSE IF raw.state = "kProcessed"
                    THEN StartMap([th[h] EXCEPT !.raw = raw], i, N, "reload")
                    ELSE [th[h] EXCEPT !.raw = raw, !.pc = "dec", !.success = FALSE]]
  /\ UNCHANGED <<cycle_vars, linear_vars, layout, use_uffd_sigbus_, compaction_in_progress_count_,
                 compaction_buffer_counter_, reclaim_vars, end_idx_for_mapping, from_space,
                 to_space, compacted, published>>

\* Lines 3545-3553.
MutAllocBuf(h) ==
  /\ th[h].pc = "alloc"
  /\ compaction_buffer_counter_' = compaction_buffer_counter_ + 1
  /\ th' = [th EXCEPT ![h].pc = "func",
                      ![h].buf = CompactionBuffer(layout, compaction_buffer_counter_)]
  /\ UNCHANGED <<cycle_vars, linear_vars, layout, use_uffd_sigbus_, moving_pages_status_,
                 compaction_in_progress_count_, reclaim_vars, end_idx_for_mapping,
                 from_space, to_space, compacted, published>>

\* Lines 3555-3575; the page the mutator compacts is the page of the plan
\* when it goes by the same descriptors.
MutFunc(h) ==
  /\ th[h].pc = "func"
  /\ from_space' = [from_space EXCEPT ![th[h].buf] =
                      IF layout.mutator_compacted[th[h].idx] = layout.compacted[th[h].idx]
                      THEN FuncResult(th[h].idx, th[h].buf) ELSE Corrupt]
  /\ compacted' = [compacted EXCEPT ![th[h].idx] = @ + 1]
  /\ th' = [th EXCEPT ![h].pc = "store_mapping"]
  /\ UNCHANGED <<cycle_vars, linear_vars, layout, use_uffd_sigbus_, moving_pages_status_,
                 compaction_in_progress_count_, compaction_buffer_counter_, reclaim_vars,
                 end_idx_for_mapping, to_space, published>>

\* Lines 3582-3585.
MutStoreMapping(h) ==
  /\ th[h].pc = "store_mapping"
  /\ moving_pages_status_' =
       [moving_pages_status_ EXCEPT ![th[h].idx] = St("kProcessedAndMapping")]
  /\ th' = [th EXCEPT ![h] = StartIoctl(th[h], th[h].idx, th[h].buf, 1, FALSE, "store_mapped")]
  /\ UNCHANGED <<cycle_vars, linear_vars, layout, use_uffd_sigbus_, compaction_in_progress_count_,
                 compaction_buffer_counter_, reclaim_vars, end_idx_for_mapping, from_space,
                 to_space, compacted, published>>

\* Lines 3587-3589.
MutStoreMapped(h) ==
  /\ th[h].pc = "store_mapped"
  /\ moving_pages_status_' =
       [moving_pages_status_ EXCEPT ![th[h].idx] = St("kProcessedAndMapped")]
  /\ th' = [th EXCEPT ![h].pc = "dec", ![h].success = TRUE]
  /\ UNCHANGED <<cycle_vars, linear_vars, layout, use_uffd_sigbus_, compaction_in_progress_count_,
                 compaction_buffer_counter_, reclaim_vars, end_idx_for_mapping, from_space,
                 to_space, compacted, published>>

\* Lines 3601-3604: what MapMovingSpacePages returned decides.
MutReload(h) ==
  /\ th[h].pc = "reload"
  /\ th' = [th EXCEPT ![h] =
              IF th[h].m_result >= gPageSize
              THEN [th[h] EXCEPT !.pc = "dec", !.success = TRUE, !.m_result = 0]
              ELSE [th[h] EXCEPT !.pc = "dec", !.success = FALSE, !.m_result = 0,
                                 !.raw = moving_pages_status_[th[h].idx]]]
  /\ UNCHANGED <<cycle_vars, linear_vars, layout, use_uffd_sigbus_, moving_pages_status_,
                 compaction_in_progress_count_, compaction_buffer_counter_, reclaim_vars,
                 end_idx_for_mapping, from_space, to_space, compacted, published>>

\* The end of the block of line 3532, ~ScopedInProgressCount, and the break
\* or the next iteration.
MutDec(h) ==
  /\ th[h].pc = "dec"
  /\ compaction_in_progress_count_' = compaction_in_progress_count_ - 1
  /\ th' = [th EXCEPT ![h] =
              IF th[h].success THEN Return(th[h])
              ELSE [th[h] EXCEPT !.pc = "loop"]]
  /\ UNCHANGED <<cycle_vars, linear_vars, layout, use_uffd_sigbus_, moving_pages_status_, compaction_buffer_counter_,
                 reclaim_vars, end_idx_for_mapping, from_space, to_space, compacted,
                 published>>

MutStep(h) ==
  \/ MutFault(h) \/ MutReturn(h) \/ ZClaim(h) \/ ZStore(h) \/ MutBusy(h) \/ MutMapped(h)
  \/ MutEnter(h) \/ MutCas(h) \/ MutAllocBuf(h) \/ MutFunc(h) \/ MutStoreMapping(h)
  \/ MutStoreMapped(h) \/ MutReload(h) \/ MutDec(h)

SubStep(t) ==
  \/ IoctlDone(t) \/ IoctlEagain(t) \/ MapFirst(t) \/ MapClaim(t) \/ MapStore(t)

\* ------------------------------------------- MapUpdatedLinearAllocPages
lgc == la[GcThread]

\* PageState values s with s > kUnprocessed && s < kProcessedAndMapped
\* (lines 3648 and 3681).
BeingProcessed(s) == s \notin {"kUnprocessed", "kProcessedAndMapped"}

\* The handler is left: its locals are gone.
LinReturn(rec) == [La0 EXCEPT !.faults = rec.faults]

StartMapUpdated(rec, state, length, free_pages, single_ioctl, ret) ==
  [rec EXCEPT !.pc = "u_claim", !.u_state = state, !.u_length = length, !.u_map_len = 0,
              !.u_end = state + DivideByPageSize(length), !.u_check = FALSE,
              !.u_free = free_pages, !.u_single = single_ioctl,
              !.u_madv = state, !.u_madv_end = state + DivideByPageSize(length),
              !.u_ret = ret]

ReturnMapUpdated(rec, result) ==
  [rec EXCEPT !.pc = rec.u_ret, !.u_result = result, !.u_state = 0, !.u_length = 0,
              !.u_map_len = 0, !.u_l = 0, !.u_end = 0, !.u_check = FALSE, !.u_free = FALSE,
              !.u_single = FALSE, !.u_madv = 0, !.u_madv_end = 0, !.u_ret = "idle"]

\* Lines 3674-3690: with free_pages the pages that mutators were seen to work
\* on are waited for before the shadow pages are released.
AfterLoop(rec) ==
  IF rec.u_free /\ rec.u_check THEN [rec EXCEPT !.pc = "u_wait"]
  ELSE ReturnMapUpdated(rec, TRUE)

\* Line 3624: while (start_page < end_page).
LoopTop(rec) ==
  IF rec.u_state < rec.u_end THEN [rec EXCEPT !.pc = "u_claim", !.u_map_len = 0, !.u_l = 0]
  ELSE AfterLoop(rec)

\* Lines 3665-3671: what follows the mapping of a claimed run.
AfterMap(rec) ==
  IF rec.u_single THEN AfterLoop(rec)
  ELSE LoopTop([rec EXCEPT !.u_length = @ - rec.u_map_len])

\* Lines 3626-3638 and 3654-3664: one compare-and-swap of the claiming loop,
\* and when the loop ends CopyIoctl for the claimed run (or the return, or
\* the skipping of the pages that are not this thread's to map).
UClaim(t) ==
  /\ la[t].pc = "u_claim"
  /\ LET rec == la[t]
         cur == rec.u_state + DivideByPageSize(rec.u_map_len)
         won == rec.u_map_len < rec.u_length /\ state_arr[cur] = "kProcessed"
         map_len == IF won THEN rec.u_map_len + gPageSize ELSE rec.u_map_len
         more == won /\ map_len < rec.u_length
     IN /\ state_arr' = IF won THEN [state_arr EXCEPT ![cur] = "kProcessedAndMapping"]
                         ELSE state_arr
        /\ la' = [la EXCEPT ![t] =
                    IF more THEN [rec EXCEPT !.u_map_len = map_len]
                    ELSE IF map_len = 0
                    THEN (IF rec.u_single THEN ReturnMapUpdated(rec, FALSE)
                          ELSE [rec EXCEPT !.pc = "u_skip"])
                    ELSE IF use_uffd_sigbus_
                    THEN [rec EXCEPT !.pc = "u_store", !.u_map_len = map_len, !.u_l = 0]
                    ELSE AfterMap([rec EXCEPT !.u_map_len = map_len,
                                              !.u_state = @ + DivideByPageSize(map_len)])]
  /\ UNCHANGED <<cycle_vars, moving_vars, minor_fault_initialized_>>

\* Lines 3640-3652: one iteration of the loop that skips the pages that are
\* not kProcessed.
USkip(t) ==
  /\ la[t].pc = "u_skip"
  /\ LET rec == la[t]
         s == state_arr[rec.u_state]
         next == [rec EXCEPT !.u_check = @ \/ BeingProcessed(s), !.u_state = @ + 1,
                             !.u_length = @ - gPageSize]
     IN la' = [la EXCEPT ![t] =
                 IF s = "kProcessed" THEN LoopTop(rec)
                 ELSE IF next.u_length > 0 THEN next
                 ELSE LoopTop(next)]
  /\ UNCHANGED <<cycle_vars, moving_vars, minor_fault_initialized_, state_arr>>

\* Lines 3658-3661: one store of kProcessedAndMapped.
UStore(t) ==
  /\ la[t].pc = "u_store"
  /\ state_arr' = [state_arr EXCEPT ![la[t].u_state] = "kProcessedAndMapped"]
  /\ LET next == [la[t] EXCEPT !.u_state = @ + 1, !.u_l = @ + gPageSize]
     IN la' = [la EXCEPT ![t] = IF next.u_l < next.u_map_len THEN next ELSE AfterMap(next)]
  /\ UNCHANGED <<cycle_vars, moving_vars, minor_fault_initialized_>>

\* Lines 3678-3686: the wait for one page of the range.
UWait(t) ==
  /\ la[t].pc = "u_wait"
  /\ ~BeingProcessed(state_arr[la[t].u_madv])
  /\ la' = [la EXCEPT ![t] =
              IF la[t].u_madv + 1 < la[t].u_madv_end THEN [la[t] EXCEPT !.u_madv = @ + 1]
              ELSE ReturnMapUpdated(la[t], TRUE)]
  /\ UNCHANGED <<cycle_vars, moving_vars, minor_fault_initialized_, state_arr>>

\* --------------------------------------------------- MapProcessedPages
\* Lines 1964-1967 with kFirstPageMapping: the first page is this thread's
\* already, the claiming starts at the next one.
StartMpp(rec, arr_idx, ret) ==
  [rec EXCEPT !.pc = "p_claim", !.p_start = arr_idx, !.p_idx = arr_idx + 1,
              !.p_length = gPageSize, !.p_ret = ret]

ReturnMpp(rec) ==
  IF rec.p_ret = "idle" THEN LinReturn(rec)
  ELSE [rec EXCEPT !.pc = rec.p_ret, !.p_start = 0, !.p_idx = 0, !.p_length = 0, !.p_mapped = 0,
                   !.p_remaining = 0, !.p_ret = "idle"]

\* Lines 2037-2046: only the SIGBUS feature records that the pages are mapped.
AfterContinue(rec) ==
  IF use_uffd_sigbus_ /\ rec.p_mapped > 0 THEN [rec EXCEPT !.pc = "p_store"]
  ELSE ReturnMpp(rec)

\* Lines 1971-1977: one compare-and-swap of the claiming loop.
PClaim(t) ==
  /\ la[t].pc = "p_claim"
  /\ LET rec == la[t]
         won == rec.p_idx < LinearPages /\ state_arr[rec.p_idx] = "kProcessed"
     IN /\ state_arr' = IF won THEN [state_arr EXCEPT ![rec.p_idx] = "kProcessedAndMapping"]
                         ELSE state_arr
        /\ la' = [la EXCEPT ![t] =
                    IF won THEN [rec EXCEPT !.p_idx = @ + 1, !.p_length = @ + gPageSize]
                    ELSE [rec EXCEPT !.pc = "p_ioctl"]]
  /\ UNCHANGED <<cycle_vars, moving_vars, minor_fault_initialized_>>

\* Every page of the run is taken for not mapped.
WholeRun(rec) == rec.p_length

\* Line 2015: the bytes of the run that UFFDIO_CONTINUE did not map.
Remaining(rec) == rec.p_length - rec.p_mapped

\* Lines 1985-2014: UFFDIO_CONTINUE maps the whole claimed run, or with EAGAIN
\* a prefix of it that holds the first page (line 2010).
PIoctl(t) ==
  /\ la[t].pc = "p_ioctl"
  /\ \E n \in 1..DivideByPageSize(la[t].p_length) :
       LET mapped == n * gPageSize
           rec == [la[t] EXCEPT !.p_mapped = mapped]
       IN la' = [la EXCEPT ![t] =
                   IF mapped < rec.p_length
                   THEN [rec EXCEPT !.pc = "p_rewind", !.p_remaining = Remaining(rec)]
                   ELSE AfterContinue(rec)]
  /\ UNCHANGED <<cycle_vars, moving_vars, minor_fault_initialized_, state_arr>>

\* Lines 2015-2021: one page of the suffix that was not mapped goes back to
\* kProcessed.
PRewind(t) ==
  /\ la[t].pc = "p_rewind"
  /\ state_arr' = [state_arr EXCEPT ![la[t].p_idx - 1] = "kProcessed"]
  /\ LET next == [la[t] EXCEPT !.p_idx = @ - 1, !.p_remaining = @ - gPageSize]
     IN la' = [la EXCEPT ![t] = IF next.p_remaining > 0 THEN next
                                 ELSE [next EXCEPT !.pc = "p_wake"]]
  /\ UNCHANGED <<cycle_vars, moving_vars, minor_fault_initialized_>>

\* Lines 2022-2024: the range of UFFDIO_WAKE, as first page and pages.
WakeRange(rec) ==
  [start |-> rec.p_start + DivideByPageSize(rec.p_mapped),
   len |-> DivideByPageSize(rec.p_length - rec.p_mapped)]

\* Lines 2022-2026: UFFDIO_WAKE for the range that was not mapped.  A thread
\* that is woken takes its fault again.
PWake(t) ==
  /\ la[t].pc = "p_wake"
  /\ la' = [la EXCEPT ![t] = AfterContinue(la[t])]
  /\ UNCHANGED <<cycle_vars, moving_vars, minor_fault_initialized_, state_arr>>

\* Lines 2040-2045: one store of kProcessedAndMapped.
PStore(t) ==
  /\ la[t].pc = "p_store"
  /\ state_arr' = [state_arr EXCEPT ![la[t].p_idx - 1] = "kProcessedAndMapped"]
  /\ LET next == [la[t] EXCEPT !.p_idx = @ - 1, !.p_mapped = @ - gPageSize]
     IN la' = [la EXCEPT ![t] = IF next.p_mapped > 0 THEN next ELSE ReturnMpp(next)]
  /\ UNCHANGED <<cycle_vars, moving_vars, minor_fault_initialized_>>

\* -------------------------------------------------- ProcessLinearAlloc
\* Lines 3929-3940 and 3975-3982: the visitor comes to the next page of the
\* arena and tries to take it; after the last page the range is mapped.
LinGcVisit ==
  /\ lgc.pc = "lin_visit"
  /\ IF lgc.idx >= LinearPages
     THEN /\ la' = [la EXCEPT ![GcThread] =
                      StartMapUpdated(lgc, 0, LinearPages * gPageSize, TRUE, FALSE, "lin_done")]
          /\ UNCHANGED state_arr
     ELSE IF state_arr[lgc.idx] = "kUnprocessed"
     THEN /\ state_arr' = [state_arr EXCEPT ![lgc.idx] = "kProcessing"]
          /\ la' = [la EXCEPT ![GcThread].pc = "lin_update"]
     ELSE /\ la' = [la EXCEPT ![GcThread].idx = @ + 1]
          /\ UNCHANGED state_arr
  /\ UNCHANGED <<cycle_vars, moving_vars, minor_fault_initialized_>>

\* The page has been updated and is given its state (lines 3950-3962).
LinUpdated(idx, touched) ==
  [state_arr EXCEPT ![idx] = IF touched THEN "kProcessed" ELSE "kProcessedAndMapped"]

\* Lines 3943-3972: the page's roots are updated on the shadow page; a page
\* the updater did not touch gets a zero page.
LinGcUpdate ==
  /\ lgc.pc = "lin_update"
  /\ LET next == [lgc EXCEPT !.pc = "lin_visit", !.idx = @ + 1]
     IN IF ~minor_fault_initialized_
        THEN /\ \E touched \in BOOLEAN : state_arr' = LinUpdated(lgc.idx, touched)
             /\ la' = [la EXCEPT ![GcThread] = next]
        ELSE IF state_arr[lgc.idx] = "kProcessing"
        THEN /\ state_arr' = [state_arr EXCEPT ![lgc.idx] = "kProcessed"]
             /\ la' = [la EXCEPT ![GcThread] = next]
        ELSE /\ la' = [la EXCEPT ![GcThread] = StartMpp(next, lgc.idx, "lin_visit")]
             /\ UNCHANGED state_arr
  /\ UNCHANGED <<cycle_vars, moving_vars, minor_fault_initialized_>>

\* ------------------------------------- ConcurrentlyProcessLinearAllocPage
RECURSIVE LinearFaults(_)
LinearFaults(ts) ==
  IF ts = {} THEN 0
  ELSE LET t == CHOOSE x \in ts : TRUE IN la[t].faults + LinearFaults(ts \ {t})

\* Lines 3730-3733: a fault on a page of the arena while the linear-alloc
\* space is registered; the handler loads the page's state.
LinFault(h) ==
  /\ la[h].pc = "idle" /\ th[h].pc = "idle"
  /\ lgc.pc \notin {"idle", "lin_done"}
  /\ LinearFaults(Mutators) < MaxFaults
  /\ \E q \in 0..LinearPages - 1 :
       la' = [la EXCEPT ![h] = [@ EXCEPT !.pc = "lin_loop", !.idx = q, !.state = state_arr[q],
                                         !.faults = @ + 1]]
  /\ UNCHANGED <<cycle_vars, moving_vars, minor_fault_initialized_, state_arr>>

\* A store in the place of the compare-and-swap.
StoreAlways(page_idx, state) == TRUE

\* Line 3740, compare_exchange_strong(state, PageState::kProcessing).
CasSucceeds(page_idx, state) == state_arr[page_idx] = state

\* Lines 3737-3741 and 3786: the compare-and-swap of kUnprocessed, which
\* loads the state the page has when it fails.
LinCas(h) ==
  /\ la[h].pc = "lin_loop" /\ la[h].state = "kUnprocessed"
  /\ IF CasSucceeds(la[h].idx, la[h].state)
     THEN /\ state_arr' = [state_arr EXCEPT ![la[h].idx] = "kProcessing"]
          /\ la' = [la EXCEPT ![h].pc = "lin_won"]
     ELSE /\ la' = [la EXCEPT ![h].state = state_arr[la[h].idx]]
          /\ UNCHANGED state_arr
  /\ UNCHANGED <<cycle_vars, moving_vars, minor_fault_initialized_>>

\* Lines 3742-3783: the winner updates the page.  In copy mode a touched
\* page becomes kProcessed and the loop maps it, an untouched one gets a zero
\* page; in minor-fault mode MapProcessedPages maps it.
LinWon(h) ==
  /\ la[h].pc = "lin_won"
  /\ IF minor_fault_initialized_
     THEN /\ la' = [la EXCEPT ![h] = StartMpp(la[h], la[h].idx, "idle")]
          /\ UNCHANGED state_arr
     ELSE \E touched \in BOOLEAN :
            /\ state_arr' = LinUpdated(la[h].idx, touched)
            /\ la' = [la EXCEPT ![h] =
                        IF touched THEN [la[h] EXCEPT !.pc = "lin_loop", !.state = "kProcessed"]
                        ELSE LinReturn(la[h])]
  /\ UNCHANGED <<cycle_vars, moving_vars, minor_fault_initialized_>>

\* Lines 3787-3795: as many pages as possible are mapped with one ioctl.
LinProcessed(h) ==
  /\ la[h].pc = "lin_loop" /\ la[h].state = "kProcessed"
  /\ la' = [la EXCEPT ![h] =
              StartMapUpdated(la[h], la[h].idx, (LinearPages - la[h].idx) * gPageSize,
                              FALSE, TRUE, "lin_mapped")]
  /\ UNCHANGED <<cycle_vars, moving_vars, minor_fault_initialized_, state_arr>>

\* Lines 3804-3810: with the SIGBUS feature the handler waits for the page to
\* be mapped, a worker of the thread pool returns.
LinWait(rec) ==
  IF use_uffd_sigbus_ THEN [rec EXCEPT !.pc = "lin_loop", !.state = state_arr[rec.idx]]
  ELSE LinReturn(rec)

\* Lines 3796-3800: MapUpdatedLinearAllocPages has returned.
LinMapped(h) ==
  /\ la[h].pc = "lin_mapped"
  /\ la' = [la EXCEPT ![h] = IF la[h].u_result THEN LinReturn(la[h]) ELSE LinWait(la[h])]
  /\ UNCHANGED <<cycle_vars, moving_vars, minor_fault_initialized_, state_arr>>

\* Lines 3801-3810: another thread works on the page.
LinBusy(h) ==
  /\ la[h].pc = "lin_loop"
  /\ la[h].state \in {"kProcessing", "kProcessingAndMapping", "kProcessedAndMapping"}
  /\ la' = [la EXCEPT ![h] = LinWait(la[h])]
  /\ UNCHANGED <<cycle_vars, moving_vars, minor_fault_initialized_, state_arr>>

\* Lines 3814-3816: somebody else took care of the page.
LinDone(h) ==
  /\ la[h].pc = "lin_loop" /\ la[h].state = "kProcessedAndMapped"
  /\ la' = [la EXCEPT ![h] = LinReturn(la[h])]
  /\ UNCHANGED <<cycle_vars, moving_vars, minor_fault_initialized_, state_arr>>

LinGcStep == LinGcVisit \/ LinGcUpdate

LinMutStep(h) ==
  \/ LinFault(h) \/ LinCas(h) \/ LinWon(h) \/ LinProcessed(h) \/ LinMapped(h)
  \/ LinBusy(h) \/ LinDone(h)

LinSubStep(t) ==
  \/ UClaim(t) \/ USkip(t) \/ UStore(t) \/ UWait(t)
  \/ PClaim(t) \/ PIoctl(t) \/ PRewind(t) \/ PWake(t) \/ PStore(t)

LinearNext ==
  LinGcStep \/ (\E h \in Mutators : LinMutStep(h)) \/ (\E t \in Threads : LinSubStep(t))

\* CompactionPhase comes to ProcessLinearAlloc when the moving space is
\* compacted and the from-space is released (lines 4055-4109).  The pages of
\* the arena may take faults from the compaction pause on; the code of the
\* linear-alloc space reads nothing of the moving space.  The source keeps
\* both the copy mode and the minor-fault mode of these pages.
LinearInit ==
  /\ layout \in Heaps
  /\ use_uffd_sigbus_ \in BOOLEAN
  /\ moving_pages_status_ =
       [p \in 0..NumPages(layout) - 1 |->
          IF first_objs_moving_space_(layout)[p] # Null THEN St("kProcessedAndMapped")
          ELSE St("kUnprocessed")]
  /\ compaction_in_progress_count_ = 0
  /\ compaction_buffer_counter_ = 1
  /\ last_reclaimed_page_ = 0 /\ last_reclaimable_page_ = 0 /\ cur_reclaimable_page_ = 0
  /\ last_checked_reclaim_page_idx_ = 0 /\ class_after_obj_iter_ = 1
  /\ end_idx_for_mapping = 0
  /\ from_space = [b \in BufferIds(layout) |->
                     IF b < MaxPages(layout) THEN Released ELSE NoContent]
  /\ to_space = [p \in 0..NumPages(layout) |->
                   IF p < NumPages(layout) /\ first_objs_moving_space_(layout)[p] # Null THEN p
                   ELSE NoContent]
  /\ th = [t \in Threads |->
             IF t = GcThread THEN [Thread0 EXCEPT !.pc = "done"]
             ELSE [Thread0 EXCEPT !.buf = IF use_uffd_sigbus_ THEN Null
                                          ELSE CompactionBuffer(layout, t)]]
  /\ compacted = [p \in 0..NumPages(layout) - 1 |->
                    IF first_objs_moving_space_(layout)[p] # Null THEN 1 ELSE 0]
  /\ published = [p \in 0..NumPages(layout) |->
                    IF p < NumPages(layout) /\ first_objs_moving_space_(layout)[p] # Null THEN 1
                    ELSE 0]
  /\ minor_fault_initialized_ \in BOOLEAN
  /\ state_arr = [q \in 0..LinearPages - 1 |-> "kUnprocessed"]
  /\ la = [t \in Threads |-> IF t = GcThread THEN [La0 EXCEPT !.pc = "lin_visit"] ELSE La0]
  /\ InCompactionPhase

Next == GcStep \/ (\E h \in Mutators : MutStep(h)) \/ (\E t \in Threads : SubStep(t))

Spec == Init /\ [][Next]_vars

\* Some thread that is inside the handler, inside CompactionPhase or inside
\* an ioctl is scheduled, and an ioctl returns; nothing makes a mutator take
\* a fault.  The handlers of SIGBUS run on the faulting mutators.
InHandler(h) == th[h].pc # "idle" /\ MutStep(h)
Progress == GcStep \/ (\E h \in Mutators : InHandler(h)) \/ (\E t \in Threads : SubStep(t))

\* The cycle on the moving space, and the cycle on the linear-alloc space.
\* ------------------------------------------------------ the collections
\* The collections of one process, one after the other: which of the two
\* compactions runs.  CompactionPhase is one step here; its steps are those
\* of Next.
MaxCycles == 3

IsValidFd(fd) == fd = "fd"

\* CreateUserfaultfd, lines 338-385: uffd_ and uffd_initialized_ when it
\* returns; ok says whether the system call gave a descriptor.
CreateUserfaultfd(post_fork, ok) ==
  LET fd == IF post_fork \/ uffd_ = "kFdUnused"
            THEN (IF gHaveMremapDontunmap /\ ok THEN "fd" ELSE "kFallbackMode")
            ELSE uffd_
  IN [uffd_ |-> fd, uffd_initialized_ |-> ~post_fork \/ fd = "kFallbackMode"]

\* The child of the zygote after the fork: CreateUserfaultfd(post_fork=true).
\* No collection is running in the child.
PostFork ==
  /\ phase = "idle" /\ is_zygote
  /\ \E ok \in BOOLEAN :
       LET r == CreateUserfaultfd(TRUE, ok)
       IN uffd_' = r.uffd_ /\ uffd_initialized_' = r.uffd_initialized_
  /\ is_zygote' = FALSE
  /\ UNCHANGED <<moving_vars, linear_vars, gHaveMremapDontunmap, registered, phase, cycle, paths,
                 root_vars, marking, term>>

\* RunPhases up to the compaction pause (lines 792-817); of ReclaimPhase the
\* sweep of the system weaks (line 1449), after which the mutators add
\* theirs; of PrepareForCompaction the creation of the descriptor (line
\* 1086).  The heap is as the marking left it, nothing is compacted or mapped.
RunPhasesBegin ==
  /\ UNCHANGED term
  /\ phase = "idle" /\ cycle < MaxCycles
  /\ \E ok \in BOOLEAN :
       LET r == IF ~uffd_initialized_ THEN CreateUserfaultfd(FALSE, ok)
                ELSE [uffd_ |-> uffd_, uffd_initialized_ |-> uffd_initialized_]
       IN uffd_' = r.uffd_ /\ uffd_initialized_' = r.uffd_initialized_
  /\ phase' = "prepared" /\ cycle' = cycle + 1 /\ paths' = NoPaths
  /\ moving_pages_status_' = [p \in DOMAIN moving_pages_status_ |-> St("kUnprocessed")]
  /\ from_space' = [b \in DOMAIN from_space |->
                      IF b < MaxPages(layout) THEN Source ELSE NoContent]
  /\ to_space' = [p \in DOMAIN to_space |-> NoContent]
  /\ compacted' = [p \in DOMAIN compacted |-> 0]
  /\ published' = [p \in DOMAIN published |-> 0]
  /\ roots' = ArenaRoots(layout)
  /\ weaks' = SweepSystemWeaks(layout, FALSE, SystemWeaks(layout)) \o NewWeaks(layout)
  /\ UNCHANGED <<linear_vars, layout, use_uffd_sigbus_, compaction_in_progress_count_,
                 compaction_buffer_counter_, reclaim_vars, end_idx_for_mapping, th,
                 gHaveMremapDontunmap, is_zygote, registered, linear_alloc_arenas_>>
  /\ marking' = [Marking0 EXCEPT !.pc = "compaction", !.trace = BeforeFlip, !.pauses = 1]

\* Line 3155.
FallbackInPause == uffd_ = "kFallbackMode"

\* FlipThreadRoots stops the mutators and CompactionPause begins: the sweep
\* of the system weaks with compacting_ set (line 3072), the roots of the
\* linear-alloc arena (lines 3109-3145; the arena holds several objects), of
\* KernelPreparation the registration (lines 3272-3274), then the test of
\* line 3155 and the start of CompactMovingSpace<kFallbackMode>.
CompactionPause ==
  /\ UNCHANGED term
  /\ phase = "prepared"
  /\ phase' = "pause"
  /\ weaks' = SweepSystemWeaks(layout, TRUE, weaks)
  /\ \E has_zygote_space \in BOOLEAN, IsPreZygoteForkArena \in BOOLEAN :
       IF uffd_ = "kFallbackMode" \/ (~has_zygote_space /\ is_zygote)
       THEN roots' = VisitRoots(layout, roots) /\ linear_alloc_arenas_' = {}
       ELSE IF ~IsPreZygoteForkArena
            THEN roots' = roots /\ linear_alloc_arenas_' = {"arena"}
            ELSE roots' = VisitRoots(layout, roots) /\ linear_alloc_arenas_' = {}
  /\ registered' = IsValidFd(uffd_)
  /\ paths' = IF FallbackInPause THEN [paths EXCEPT !.stw = @ + 1] ELSE paths
  /\ th' = [th EXCEPT ![GcThread].idx = IF FallbackInPause THEN N ELSE 0]
  /\ UNCHANGED <<linear_vars, layout, use_uffd_sigbus_, moving_pages_status_,
                 compaction_in_progress_count_, compaction_buffer_counter_, reclaim_vars,
                 end_idx_for_mapping, from_space, to_space, compacted, published,
                 uffd_, uffd_initialized_, gHaveMremapDontunmap, is_zygote, cycle>>
  /\ marking' = [SetMarkBits(Begun(marking, "CompactionPause"), layout.black.black_marks)
                   EXCEPT !.suspended = TRUE, !.pauses = @ + 1]

\* One iteration of the loops of CompactMovingSpace<kFallbackMode> (lines
\* 2380-2406 and 2418-2447): the page is compacted into the to-space
\* itself; a black page without a first object is passed over.
FallbackPage ==
  /\ phase = "pause" /\ gc.idx > 0
  /\ LET p == gc.idx - 1
         skip == p >= M /\ first_obj(p) = Null
     IN /\ to_space' = IF skip THEN to_space
                        ELSE [to_space EXCEPT ![p] = FuncResult(p, Null)]
        /\ compacted' = IF skip THEN compacted ELSE [compacted EXCEPT ![p] = @ + 1]
        /\ th' = [th EXCEPT ![GcThread].idx = p]
  /\ UNCHANGED <<cycle_vars, linear_vars, layout, use_uffd_sigbus_, moving_pages_status_,
                 compaction_in_progress_count_, compaction_buffer_counter_, reclaim_vars,
                 end_idx_for_mapping, from_space, published>>

\* CompactionPause returns and the mutators are resumed.
PauseEnd ==
  /\ UNCHANGED term
  /\ phase = "pause" /\ gc.idx = 0
  /\ phase' = "resumed"
  /\ marking' = Resumed(marking)
  /\ UNCHANGED <<moving_vars, linear_vars, uffd_, uffd_initialized_, gHaveMremapDontunmap,
                 is_zygote, registered, cycle, paths, root_vars>>

\* A mutator touches a page of a registered range that is not mapped: the
\* SIGBUS handler or a worker of the thread pool resolves the fault.
Fault ==
  /\ phase = "resumed" /\ registered
  /\ paths.faults < MaxFaults
  /\ paths' = [paths EXCEPT !.faults = @ + 1]
  /\ UNCHANGED <<moving_vars, linear_vars, uffd_, uffd_initialized_, gHaveMremapDontunmap,
                 is_zygote, registered, phase, cycle, root_vars, marking, term>>

\* CompactionPhase is run whatever uffd_ is.
Always == TRUE

\* Line 827.
RunsCompactionPhase == IsValidFd(uffd_)

\* Lines 827-830: CompactionPhase, when there is a descriptor; it leaves
\* every page with a first object compacted and mapped and the moving space
\* unregistered (line 4069).
AfterPause ==
  /\ UNCHANGED term
  /\ phase = "resumed"
  /\ phase' = "finish"
  /\ IF RunsCompactionPhase
     THEN /\ paths' = [paths EXCEPT !.concurrent = @ + 1]
          /\ to_space' = [p \in DOMAIN to_space |->
                            IF p < N /\ first_obj(p) # Null /\ to_space[p] = NoContent THEN p
                            ELSE to_space[p]]
          /\ compacted' = [p \in DOMAIN compacted |->
                             IF first_obj(p) # Null THEN compacted[p] + 1 ELSE compacted[p]]
          /\ registered' = FALSE
          /\ roots' = IF linear_alloc_arenas_ # {} THEN VisitRoots(layout, roots) ELSE roots
          /\ marking' = Begun(marking, "CompactionPhase")
     ELSE UNCHANGED <<paths, to_space, compacted, registered, roots, marking>>
  /\ UNCHANGED <<linear_vars, layout, use_uffd_sigbus_, moving_pages_status_,
                 compaction_in_progress_count_, compaction_buffer_counter_, reclaim_vars,
                 end_idx_for_mapping, from_space, th, published,
                 uffd_, uffd_initialized_, gHaveMremapDontunmap, is_zygote, cycle, weaks,
                 linear_alloc_arenas_>>

\* The descriptor is closed and uffd_initialized_ is left as it was.
CloseOnly == [uffd_ |-> "kFdUnused", uffd_initialized_ |-> uffd_initialized_]

\* Lines 4730-4732.
CloseUffd == [uffd_ |-> "kFdUnused", uffd_initialized_ |-> FALSE]

\* FinishPhase (lines 4720-4735: the live-words bitmap and the mark bitmap
\* of the moving space are cleared, the descriptor of the zygote is closed,
\* the mark stack is reset) and the end of RunPhases.
FinishPhase ==
  /\ UNCHANGED term
  /\ phase = "finish"
  /\ phase' = "idle"
  /\ LET r == IF is_zygote /\ IsValidFd(uffd_) THEN CloseUffd
              ELSE [uffd_ |-> uffd_, uffd_initialized_ |-> uffd_initialized_]
     IN uffd_' = r.uffd_ /\ uffd_initialized_' = r.uffd_initialized_
  /\ registered' = IF is_zygote /\ IsValidFd(uffd_) THEN FALSE ELSE registered
  /\ linear_alloc_arenas_' = {}
  /\ marking.mark_stack_ = << >>
  /\ marking' = [Begun(marking, "FinishPhase") EXCEPT !.pc = "idle", !.live_words_bitmap_ = {},
                                                      !.moving_space_bitmap_ = {}]
  /\ UNCHANGED <<moving_vars, linear_vars, gHaveMremapDontunmap, is_zygote, cycle, paths, roots,
                 weaks>>

\* The state after construction (lines 438-445), before the first
\* collection, in the zygote or in a process that was not forked from it.
CycleInit ==
  /\ layout \in Heaps
  /\ use_uffd_sigbus_ \in BOOLEAN
  /\ moving_pages_status_ = [p \in 0..NumPages(layout) - 1 |-> St("kUnprocessed")]
  /\ compaction_in_progress_count_ = 0
  /\ compaction_buffer_counter_ = 1
  /\ last_reclaimed_page_ = 0 /\ last_reclaimable_page_ = 0 /\ cur_reclaimable_page_ = 0
  /\ last_checked_reclaim_page_idx_ = 0 /\ class_after_obj_iter_ = 1
  /\ end_idx_for_mapping = 0
  /\ from_space = [b \in BufferIds(layout) |->
                     IF b < MaxPages(layout) THEN Source ELSE NoContent]
  /\ to_space = [p \in 0..NumPages(layout) |-> NoContent]
  /\ th = [t \in Threads |-> Thread0]
  /\ compacted = [p \in 0..NumPages(layout) - 1 |-> 0]
  /\ published = [p \in 0..NumPages(layout) |-> 0]
  /\ minor_fault_initialized_ = FALSE
  /\ state_arr = [q \in 0..LinearPages - 1 |-> "kUnprocessed"]
  /\ la = [t \in Threads |-> La0]
  /\ uffd_ = "kFdUnused" /\ uffd_initialized_ = FALSE
  /\ gHaveMremapDontunmap \in BOOLEAN
  /\ is_zygote \in BOOLEAN
  /\ registered = FALSE /\ phase = "idle" /\ cycle = 0 /\ paths = NoPaths
  /\ roots = ArenaRoots(layout) /\ weaks = SystemWeaks(layout) /\ linear_alloc_arenas_ = {}
  /\ marking = Marking0
  /\ term = Term0

\* The same, on a heap with any marking result.
PlanInit ==
  /\ layout \in PlanHeaps
  /\ use_uffd_sigbus_ \in BOOLEAN
  /\ moving_pages_status_ = [p \in 0..NumPages(layout) - 1 |-> St("kUnprocessed")]
  /\ compaction_in_progress_count_ = 0
  /\ compaction_buffer_counter_ = 1
  /\ last_reclaimed_page_ = 0 /\ last_reclaimable_page_ = 0 /\ cur_reclaimable_page_ = 0
  /\ last_checked_reclaim_page_idx_ = 0 /\ class_after_obj_iter_ = 1
  /\ end_idx_for_mapping = 0
  /\ from_space = [b \in BufferIds(layout) |->
                     IF b < MaxPages(layout) THEN Source ELSE NoContent]
  /\ to_space = [p \in 0..NumPages(layout) |-> NoContent]
  /\ th = [t \in Threads |-> Thread0]
  /\ compacted = [p \in 0..NumPages(layout) - 1 |-> 0]
  /\ published = [p \in 0..NumPages(layout) |-> 0]
  /\ minor_fault_initialized_ = FALSE
  /\ state_arr = [q \in 0..LinearPages - 1 |-> "kUnprocessed"]
  /\ la = [t \in Threads |-> La0]
  /\ uffd_ = "kFdUnused" /\ uffd_initialized_ = FALSE
  /\ gHaveMremapDontunmap \in BOOLEAN
  /\ is_zygote \in BOOLEAN
  /\ registered = FALSE /\ phase = "idle" /\ cycle = 0 /\ paths = NoPaths
  /\ roots = ArenaRoots(layout) /\ weaks = SystemWeaks(layout) /\ linear_alloc_arenas_ = {}
  /\ marking = Marking0
  /\ term = Term0

CycleNext ==
  PostFork \/ RunPhasesBegin \/ CompactionPause \/ FallbackPage \/ PauseEnd \/ Fault
  \/ AfterPause \/ FinishPhase
CycleSpec == CycleInit /\ [][CycleNext]_vars
PlanSpec == PlanInit /\ [][CycleNext]_vars

\* --------------------------------------------- the publish calls alone
\* The longest range of a publish call, in pages.
MaxRange == 3

\* A thread is at the call of CopyIoctl in MapMovingSpacePages (line 2489)
\* or, a mutator, at the call of ZeropageIoctl in
\* ConcurrentlyProcessMovingPage (line 3500): the pages of the range are
\* claimed, for a copy the source pages hold the compacted pages in order.
\* A mutator that copies is inside the ScopedInProgressCount of line 3566;
\* one that maps zero pages is not (lines 3478-3506), and the GC thread,
\* when it is not the caller, may be through with its own pages and at the
\* wait of lines 4065-4067.
IoctlInit ==
  /\ layout \in Heaps
  /\ use_uffd_sigbus_ \in BOOLEAN
  /\ compaction_buffer_counter_ = 1
  /\ last_reclaimed_page_ = 0 /\ last_reclaimable_page_ = 0 /\ cur_reclaimable_page_ = 0
  /\ last_checked_reclaim_page_idx_ = 0 /\ class_after_obj_iter_ = 1
  /\ end_idx_for_mapping = 0
  /\ to_space = [p \in 0..NumPages(layout) |-> NoContent]
  /\ published = [p \in 0..NumPages(layout) |-> 0]
  /\ minor_fault_initialized_ = FALSE
  /\ state_arr = [q \in 0..LinearPages - 1 |-> "kUnprocessed"]
  /\ la = [t \in Threads |-> La0]
  /\ InCompactionPhase
  /\ \E c \in Threads, len \in 1..MaxRange, zero \in BOOLEAN :
       \E dst \in 0..NumPages(layout) - len, src \in 0..MaxPages(layout) - len :
         /\ zero => c \in Mutators /\ src = 0
         /\ compaction_in_progress_count_ = IF ~zero /\ c \in Mutators THEN 1 ELSE 0
         /\ moving_pages_status_ =
              [p \in 0..NumPages(layout) - 1 |->
                 IF p >= dst /\ p < dst + len THEN St("kProcessedAndMapping")
                 ELSE St("kUnprocessed")]
         /\ compacted = [p \in 0..NumPages(layout) - 1 |->
                           IF ~zero /\ p >= dst /\ p < dst + len THEN 1 ELSE 0]
         /\ from_space = [b \in BufferIds(layout) |->
                            IF ~zero /\ b >= src /\ b < src + len THEN dst + (b - src)
                            ELSE IF b < MaxPages(layout) THEN Source ELSE NoContent]
         /\ th = [t \in Threads |->
                    LET rec == IF t = GcThread THEN [Thread0 EXCEPT !.pc = "wait"]
                               ELSE [Thread0 EXCEPT !.buf = IF use_uffd_sigbus_ THEN Null
                                                            ELSE CompactionBuffer(layout, t)]
                    IN IF t # c THEN rec
                       ELSE IF zero
                       THEN StartIoctl([rec EXCEPT !.idx = dst, !.end_idx = dst + len,
                                                   !.length = len * gPageSize],
                                       dst, 0, len, TRUE, "z_store")
                       ELSE StartIoctl([rec EXCEPT !.m_idx = dst, !.m_len = dst + len,
                                                   !.m_i = dst, !.m_length = len * gPageSize,
                                                   !.m_from = src, !.m_ret = "return"],
                                       dst, src, len, FALSE, "map_store")]

IoctlNext == (\E t \in Threads : IoctlDone(t) \/ IoctlEagain(t)) \/ GcWait \/ GcUnregister
IoctlSpec == IoctlInit /\ [][IoctlNext]_vars

StatusInit == Init \/ LinearInit
StatusNext == Next \/ LinearNext
StatusSpec == StatusInit /\ [][StatusNext]_vars

\* ------------------------------------------------------------ the marking
\* One collection from InitializePhase on: the marking with the mutators
\* running, the marking pause, the plan, and then the compaction as in the
\* collections above.

\* The heaps the marking runs on.  A heap of b objects of one word, in a
\* space of s words, with a black allocation when there is room for one.
UnitLayout(b, s) ==
  [ objs |-> [i \in 1..b |-> Obj(i - 1, 1, Null, FALSE, << >>)],
    black_allocations_begin_ |-> b,
    first_block_size |-> b,
    blocks |-> IF s > b
               THEN << [size |-> s - b, owner |-> 0,
                        objs |-> << Obj(b, 2, Null, TRUE, <<Null>>) >>] >>
               ELSE << >>,
    space_words |-> s ]

\* A heap of objects of the given sizes, one after the other, the last of
\* them ending at a page boundary; the first field of an object refers to
\* the object of the given index, if any.  Two TLABs are allocated after the
\* marking pause, the second of them beginning in the middle of a page.
RECURSIVE AddrOf(_, _)
AddrOf(shape, i) == IF i = 1 THEN 0 ELSE AddrOf(shape, i - 1) + shape[i - 1][1]
ShapeLayout(shape) ==
  LET end == AddrOf(shape, Len(shape)) + shape[Len(shape)][1]
  IN [ objs |-> [i \in 1..Len(shape) |->
                   Obj(AddrOf(shape, i), shape[i][1], Null, FALSE,
                       [k \in 1..shape[i][1] - 1 |->
                          IF k = 1 /\ shape[i][2] > 0 THEN AddrOf(shape, shape[i][2])
                          ELSE Null])],
       black_allocations_begin_ |-> end,
       first_block_size |-> end,
       blocks |-> << [size |-> 2, owner |-> 0,
                      objs |-> << Obj(end, 2, Null, TRUE, <<Null>>) >>],
                     [size |-> PageWords - 2, owner |-> 0,
                      objs |-> << Obj(end + 2, 2, Null, TRUE, <<Null>>) >>] >>,
       space_words |-> end + PageWords ]

\* Objects that span pages, and garbage at the end of the heap.
Shapes ==
  << << <<9, 2>>, <<3, 0>> >>,
     << <<2, 2>>, <<10, 0>> >>,
     << <<1, 0>>, <<6, 3>>, <<1, 0>> >>,
     << <<2, 3>>, <<2, 0>>, <<4, 0>> >> >>

\* Layout l when the marking begins: nothing is marked, and nothing refers
\* to the black allocations, which are made after the marking pause.
AtMarking(l) ==
  [l EXCEPT !.objs = [i \in 1..Len(l.objs) |->
                        [l.objs[i] EXCEPT
                           !.marked = FALSE,
                           !.fields = [k \in 1..Len(l.objs[i].fields) |->
                                         IF l.objs[i].fields[k] >= l.black_allocations_begin_
                                         THEN Null ELSE l.objs[i].fields[k]]]]]

MarkingHeaps ==
  {UnitLayout(b, s) : b \in {PageWords, 2 * PageWords}, s \in {2 * PageWords}}
    \cup {ShapeLayout(Shapes[i]) : i \in 1..Len(Shapes)}

PrePauseAddrs(l) == {o.addr : o \in PrePauseObjs(l)}

\* Object::VisitReferences: the class and the reference fields of the object
\* at a, those that lie in the moving space.
References(l, a) ==
  LET o == ObjAt(l, a)
  IN ({o.klass} \cup {o.fields[k] : k \in 1..Len(o.fields)}) \ {Null}

\* What the mutators hold when they store into the black allocations later.
BlackReferents(l) ==
  UNION {References(l, o.addr) : o \in BlackObjs(l)} \cap PrePauseAddrs(l)

\* The objects that can be reached from the roots rs.
RECURSIVE ReachableFrom(_, _)
ReachableFrom(l, rs) ==
  LET next == rs \cup (UNION {References(l, a) : a \in rs} \cap PrePauseAddrs(l))
  IN IF next = rs THEN rs ELSE ReachableFrom(l, next)

HasFields(l) == \E o \in PrePauseObjs(l) : o.size > 1

\* The roots when the collection begins: any objects of a heap without
\* fields, at most one object beside the black referents otherwise.
RootChoices(l) ==
  {rs \in SUBSET PrePauseAddrs(l) :
     /\ BlackReferents(l) \subseteq rs
     /\ HasFields(l) => Cardinality(rs \ BlackReferents(l)) <= 1}

\* The writes and loads the mutators make while a collection marks.
MaxWrites == 1

\* The mark stack is created with room for this many entries.
InitialCapacity == 1

\* The mark stack is emptied and left with its capacity.
ResizeNot(m, new_size) == [m EXCEPT !.mark_stack_ = << >>]

\* AtomicStack::Resize: the stack is empty and has the new capacity, in
\* memory that is mapped anew.
Resize(m, new_size) ==
  [m EXCEPT !.mark_stack_ = << >>, !.capacity = new_size, !.storage = @ + 1]

RECURSIVE PushBackAll(_, _, _)
PushBackAll(m, temp, i) ==
  IF i > Len(temp) THEN m
  ELSE PushBackAll([m EXCEPT !.mark_stack_ = Append(@, temp[i])], temp, i + 1)

\* The stack is resized and what it held is not put back.
ExpandAndDrop(m) == Resize(m, m.capacity * 2)

\* MarkCompact::ExpandMarkStack, lines 4527-4536.
ExpandMarkStack(m) ==
  LET new_size == m.capacity * 2
      temp == m.mark_stack_
  IN PushBackAll(Resize(m, new_size), temp, 1)

\* MarkCompact::PushOnMarkStack, lines 4538-4543.
PushOnMarkStack(m, obj) ==
  LET m1 == IF Len(m.mark_stack_) = m.capacity THEN ExpandMarkStack(m) ELSE m
  IN [m1 EXCEPT !.mark_stack_ = Append(@, obj)]

\* MarkCompact::MarkObjectNonNull, lines 4545-4562, on an object of the
\* moving space: it is pushed when its mark bit was not set.
MarkObjectNonNull(m, obj) ==
  IF obj \in m.moving_space_bitmap_ THEN m
  ELSE PushOnMarkStack([m EXCEPT !.moving_space_bitmap_ = @ \cup {obj}], obj)

\* MarkObject on each object of a set, lowest address first.
RECURSIVE MarkObjects(_, _)
MarkObjects(m, objs) ==
  IF objs = {} THEN m
  ELSE LET a == CHOOSE x \in objs : \A y \in objs : x <= y
       IN MarkObjects(MarkObjectNonNull(m, a), objs \ {a})

\* The object's liveness is recorded whenever it is scanned.
ScansUpdate(kUpdateLiveWords) == TRUE

\* Lines 4510 and 4302: only ProcessMarkStack scans with kUpdateLiveWords.
UpdatesLiveWords(kUpdateLiveWords) == kUpdateLiveWords

\* MarkCompact::ScanObject, lines 4500-4514.
ScanObject(l, m, obj, kUpdateLiveWords) ==
  LET o == ObjAt(l, obj)
      st == UpdateLivenessInfo([bitmap |-> m.live_words_bitmap_, vec |-> m.chunk_info_vec_],
                               obj * kAlignment, o.size * kAlignment)
      m1 == IF UpdatesLiveWords(kUpdateLiveWords)
            THEN [m EXCEPT !.live_words_bitmap_ = st.bitmap, !.chunk_info_vec_ = st.vec,
                           !.updated[obj] = @ + 1]
            ELSE m
  IN MarkObjects(m1, References(l, obj))

\* CardTable::Scan over the moving space with ScanObjectVisitor (lines
\* 4341-4360): every marked object whose card is of the age or younger.
RECURSIVE ScanCards(_, _, _)
ScanCards(l, m, objs) ==
  IF objs = {} THEN m
  ELSE LET a == CHOOSE x \in objs : \A y \in objs : x <= y
       IN ScanCards(l, ScanObject(l, m, a, FALSE), objs \ {a})

\* A card is scanned when it is at least of the age asked for: kCardDirty,
\* or kCardDirty - 1 which is kCardAged.
OfAge(card, minimum_age) ==
  IF minimum_age = "kCardDirty" THEN card = "dirty" ELSE card \in {"aged", "dirty"}

\* The marking pause scans no card.
NoCard(card) == FALSE

\* The age of the cards the marking pause scans, line 1366.
PausedAge(card) == OfAge(card, "kCardDirty")

ScanDirtyObjects(l, m, paused) ==
  ScanCards(l, m, {a \in m.moving_space_bitmap_ \cap PrePauseAddrs(l) :
                     IF paused THEN PausedAge(m.cards[a])
                     ELSE OfAge(m.cards[a], "kCardAged")})

\* PrepareCardTableForMarking on the moving space, lines 688-711.
PrepareCardTableForMarking(m, clear_alloc_space_cards) ==
  [m EXCEPT !.cards = [a \in DOMAIN m.cards |->
                         IF clear_alloc_space_cards THEN "clean"
                         ELSE IF m.cards[a] = "dirty" THEN "aged" ELSE "clean"]]

InMarking == phase = "marking"

MarkingFrame ==
  UNCHANGED <<linear_vars, use_uffd_sigbus_, moving_pages_status_,
              compaction_in_progress_count_, compaction_buffer_counter_, reclaim_vars,
              end_idx_for_mapping, from_space, to_space, th, compacted, published,
              uffd_, uffd_initialized_, gHaveMremapDontunmap, is_zygote, registered, cycle,
              paths, root_vars, term>>

\* RunPhases begins: InitializePhase, lines 736-757.
InitializePhase ==
  /\ UNCHANGED term
  /\ phase = "idle" /\ marking.pc = "idle" /\ cycle = 0
  /\ marking.mark_stack_ = << >>
  /\ phase' = "marking" /\ cycle' = cycle + 1
  /\ marking' = [Begun(marking, "InitializePhase") EXCEPT !.pc = "MarkingPhase"]
  /\ UNCHANGED <<linear_vars, layout, use_uffd_sigbus_, moving_pages_status_,
                 compaction_in_progress_count_, compaction_buffer_counter_, reclaim_vars,
                 end_idx_for_mapping, from_space, to_space, th, compacted, published,
                 uffd_, uffd_initialized_, gHaveMremapDontunmap, is_zygote, registered,
                 paths, root_vars>>

\* MarkingPhase up to MarkReachableObjects, lines 4402-4410: the cards are
\* cleared and the roots marked.
MarkingPhase ==
  /\ InMarking /\ marking.pc = "MarkingPhase"
  /\ marking' = [MarkObjects(PrepareCardTableForMarking(Begun(marking, "MarkingPhase"), TRUE),
                             marking.roots)
                   EXCEPT !.pc = "MarkReachableObjects"]
  /\ phase' = phase /\ layout' = layout /\ MarkingFrame

AfterStack(pc) ==
  IF pc = "MarkReachableObjects" THEN "PreCleanCards"
  ELSE IF pc = "RecursiveMarkDirtyObjects" THEN "MarkingPause"
  ELSE "MarkingPauseEnd"

\* One turn of the loop of ProcessMarkStack, lines 4517-4525, in
\* MarkReachableObjects and in RecursiveMarkDirtyObjects.
ProcessMarkStack ==
  /\ InMarking
  /\ marking.pc \in {"MarkReachableObjects", "RecursiveMarkDirtyObjects", "PausedMarkDirtyObjects"}
  /\ marking' =
       IF marking.mark_stack_ = << >> THEN [marking EXCEPT !.pc = AfterStack(marking.pc)]
       ELSE LET n == Len(marking.mark_stack_)
                obj == marking.mark_stack_[n]
            IN ScanObject(layout, [marking EXCEPT !.mark_stack_ = SubSeq(@, 1, n - 1)], obj, TRUE)
  /\ phase' = phase /\ layout' = layout /\ MarkingFrame

\* PreCleanCards up to the scan, lines 4379-4386: the cards are aged and the
\* roots marked again.
PreCleanCards ==
  /\ InMarking /\ marking.pc = "PreCleanCards"
  /\ marking' = [MarkObjects(PrepareCardTableForMarking(marking, FALSE), marking.roots)
                   EXCEPT !.pc = "ScanDirtyObjects"]
  /\ phase' = phase /\ layout' = layout /\ MarkingFrame

\* The scan of PreCleanCards, line 4387.
PreCleanScan ==
  /\ InMarking /\ marking.pc = "ScanDirtyObjects"
  /\ marking' = [ScanDirtyObjects(layout, marking, FALSE)
                   EXCEPT !.pc = "RecursiveMarkDirtyObjects"]
  /\ phase' = phase /\ layout' = layout /\ MarkingFrame

\* ScopedPause suspends the mutators; MarkingPause up to the mark stack,
\* lines 1331-1366: the roots of the threads, the other roots, the objects
\* of the dirty cards.
MarkingPause ==
  /\ InMarking /\ marking.pc = "MarkingPause"
  /\ marking' = [ScanDirtyObjects(layout,
                                  MarkObjects(Begun(marking, "MarkingPause"), marking.roots),
                                  TRUE)
                   EXCEPT !.pc = "PausedMarkDirtyObjects", !.suspended = TRUE,
                          !.pauses = @ + 1]
  /\ phase' = phase /\ layout' = layout /\ MarkingFrame

\* MarkingPause returns and the mutators are resumed.
MarkingPauseEnd ==
  /\ InMarking /\ marking.pc = "MarkingPauseEnd"
  /\ marking' = [Resumed(marking) EXCEPT !.pc = "ReclaimPhase"]
  /\ phase' = phase /\ layout' = layout /\ MarkingFrame

\* ReclaimPhase, lines 1441-1460.
ReclaimPhase ==
  /\ InMarking /\ marking.pc = "ReclaimPhase"
  /\ marking' = [Begun(marking, "ReclaimPhase") EXCEPT !.pc = "PrepareForCompaction"]
  /\ phase' = phase /\ layout' = layout /\ MarkingFrame

\* The heap as the marking left it, for the planner.
MarkedHeap(l, m) ==
  [l EXCEPT !.objs = [i \in 1..Len(l.objs) |->
                        [l.objs[i] EXCEPT !.marked = l.objs[i].addr \in m.moving_space_bitmap_]]]
    @@ [liveness |-> [bitmap |-> m.live_words_bitmap_, vec |-> m.chunk_info_vec_]]

Planned(l) == WithMutatorPages(WithPages(AfterClassMap(AfterBlackAllocations(AfterPrepare(l)))))

\* PrepareForCompaction, lines 1018-1107, and what CompactionPause finds:
\* the plan of the heap, the descriptor, every page unprocessed.
PrepareForCompactionStep ==
  /\ UNCHANGED term
  /\ InMarking /\ marking.pc = "PrepareForCompaction"
  /\ marking' = [Begun(marking, "PrepareForCompaction") EXCEPT !.pc = "compaction"]
  /\ phase' = "prepared"
  /\ \E ok \in BOOLEAN :
       LET r == IF ~uffd_initialized_ THEN CreateUserfaultfd(FALSE, ok)
                ELSE [uffd_ |-> uffd_, uffd_initialized_ |-> uffd_initialized_]
       IN uffd_' = r.uffd_ /\ uffd_initialized_' = r.uffd_initialized_
  /\ \E l \in {Planned(MarkedHeap(layout, marking))} :
        /\ layout' = l
        /\ moving_pages_status_' = [p \in 0..NumPages(l) - 1 |-> St("kUnprocessed")]
        /\ from_space' = [b \in BufferIds(l) |-> IF b < MaxPages(l) THEN Source ELSE NoContent]
        /\ to_space' = [p \in 0..NumPages(l) |-> NoContent]
        /\ compacted' = [p \in 0..NumPages(l) - 1 |-> 0]
        /\ published' = [p \in 0..NumPages(l) |-> 0]
        /\ roots' = ArenaRoots(l)
        /\ weaks' = SweepSystemWeaks(l, FALSE, SystemWeaks(l)) \o NewWeaks(l)
  /\ paths' = NoPaths
  /\ UNCHANGED <<linear_vars, use_uffd_sigbus_, compaction_in_progress_count_,
                 compaction_buffer_counter_, reclaim_vars, end_idx_for_mapping, th,
                 gHaveMremapDontunmap, is_zygote, registered, cycle, linear_alloc_arenas_>>

\* The objects a mutator may have just allocated: no reference leads to
\* them and they hold none.
Fresh(l, m) ==
  {a \in PrePauseAddrs(l) \ (ReachableFrom(l, m.roots) \cup m.moving_space_bitmap_) :
     References(l, a) = {}}

\* A mutator stores a reference into a field of an object it can reach: null,
\* an object it can reach or one it has just allocated; the write barrier
\* dirties the card of the object written.
MutatorWrite ==
  /\ InMarking /\ ~marking.suspended /\ marking.writes < MaxWrites
  /\ marking.pc \notin {"ReclaimPhase", "PrepareForCompaction"}
  /\ \E i \in 1..Len(layout.objs) :
       \E k \in 1..Len(layout.objs[i].fields),
          r \in ReachableFrom(layout, marking.roots) \cup Fresh(layout, marking) \cup {Null} :
         /\ layout.objs[i].addr \in ReachableFrom(layout, marking.roots)
         /\ layout.objs[i].fields[k] # r
         /\ layout' = [layout EXCEPT !.objs[i].fields[k] = r]
         /\ marking' = [marking EXCEPT !.cards[layout.objs[i].addr] = "dirty",
                                       !.writes = @ + 1]
  /\ phase' = phase /\ MarkingFrame

\* The state after construction, before the first collection.
MarkingInit ==
  /\ layout \in MarkingHeaps
  /\ use_uffd_sigbus_ \in BOOLEAN
  /\ moving_pages_status_ = << >>
  /\ compaction_in_progress_count_ = 0
  /\ compaction_buffer_counter_ = 1
  /\ last_reclaimed_page_ = 0 /\ last_reclaimable_page_ = 0 /\ cur_reclaimable_page_ = 0
  /\ last_checked_reclaim_page_idx_ = 0 /\ class_after_obj_iter_ = 1
  /\ end_idx_for_mapping = 0
  /\ from_space = << >> /\ to_space = << >> /\ compacted = << >> /\ published = << >>
  /\ th = [t \in Threads |-> Thread0]
  /\ minor_fault_initialized_ = FALSE
  /\ state_arr = [q \in 0..LinearPages - 1 |-> "kUnprocessed"]
  /\ la = [t \in Threads |-> La0]
  /\ uffd_ = "kFdUnused" /\ uffd_initialized_ = FALSE
  /\ gHaveMremapDontunmap \in BOOLEAN
  /\ is_zygote = FALSE
  /\ registered = FALSE /\ phase = "idle" /\ cycle = 0 /\ paths = NoPaths
  /\ roots = << >> /\ weaks = << >> /\ linear_alloc_arenas_ = {}
  /\ term = Term0
  /\ \E rs \in RootChoices(layout) :
       marking = [Marking0 EXCEPT
                    !.capacity = InitialCapacity,
                    !.chunk_info_vec_ = [c \in 0..vector_length_(layout) - 1 |-> 0],
                    !.updated = [a \in PrePauseAddrs(layout) |-> 0],
                    !.cards = [a \in PrePauseAddrs(layout) |-> "clean"],
                    !.roots = rs]

MarkingNext ==
  \/ InitializePhase \/ MarkingPhase \/ ProcessMarkStack \/ PreCleanCards \/ PreCleanScan
  \/ MarkingPause \/ MarkingPauseEnd \/ ReclaimPhase \/ PrepareForCompactionStep
  \/ MutatorWrite
  \/ CompactionPause \/ FallbackPage \/ PauseEnd \/ Fault \/ AfterPause \/ FinishPhase

MarkingSpec == MarkingInit /\ [][MarkingNext]_vars

\* ------------------------------------------------- the roots of the threads
\* MarkRootsCheckpoint (lines 4253-4276): every thread runs
\* CheckpointMarkThreadRoots, the mutators at their next suspend point, each
\* with a ThreadRootsVisitor of its own; the collector waits at the barrier.
Visitors == 1..2

\* The buffer of a ThreadRootsVisitor (line 4238), in references.
kBufferSize == 2

Visitor0 ==
  [pc |-> "visit", todo |-> << >>, roots_ |-> << >>, start |-> 0, storage |-> 0,
   pending |-> Null]

AscendingSeq(set) ==
  CHOOSE q \in [1..Cardinality(set) -> set] :
    \A i, j \in 1..Cardinality(set) : i < j => q[i] < q[j]

\* ThreadRootsVisitor::VisitRoots (lines 4167-4188) on one root, and Push
\* (lines 4210-4216): the object is marked, and if this thread is the one
\* that marked it, it is put in the buffer, which is flushed first when full.
VisitThreadRoot(t) ==
  LET v == marking.visitors[t]
      obj == Head(v.todo)
      newly == obj \notin marking.moving_space_bitmap_
      full == Len(v.roots_) >= kBufferSize
  IN /\ phase = "marking" /\ marking.pc = "MarkRootsCheckpoint"
     /\ v.pc = "visit" /\ v.todo # << >>
     /\ marking' =
          [marking EXCEPT
             !.moving_space_bitmap_ = @ \cup {obj},
             !.pushed = IF newly THEN @ \cup {obj} ELSE @,
             !.visitors[t] =
               [v EXCEPT !.todo = Tail(v.todo),
                         !.pc = IF newly /\ full THEN "flush" ELSE "visit",
                         !.pending = IF newly /\ full THEN obj ELSE Null,
                         !.roots_ = IF newly /\ ~full THEN Append(@, obj) ELSE @]]
     /\ phase' = phase /\ layout' = layout /\ MarkingFrame

\* The visitor is destroyed after the last root: Flush (line 4163).
VisitorEnd(t) ==
  LET v == marking.visitors[t]
  IN /\ phase = "marking" /\ marking.pc = "MarkRootsCheckpoint"
     /\ v.pc = "visit" /\ v.todo = << >>
     /\ marking' = [marking EXCEPT !.visitors[t].pc = "flush"]
     /\ phase' = phase /\ layout' = layout /\ MarkingFrame

\* The loop of lines 4199-4201: the stack is expanded until the references
\* fit.
RECURSIVE ExpandUntilFits(_, _)
ExpandUntilFits(m, n) ==
  IF Len(m.mark_stack_) + n <= m.capacity THEN m ELSE ExpandUntilFits(ExpandMarkStack(m), n)

\* Flush, lines 4194-4202, with lock_ held: AtomicStack::BumpBack reserves
\* the slots for the buffer, after the stack was expanded if it had to be.
\* The slots hold what the memory held, null, until the thread writes them.
FlushReserve(t) ==
  LET v == marking.visitors[t]
      n == Len(v.roots_)
      m == ExpandUntilFits(marking, n)
  IN /\ phase = "marking" /\ marking.pc = "MarkRootsCheckpoint"
     /\ v.pc = "flush"
     /\ marking' =
          [m EXCEPT !.mark_stack_ = @ \o [i \in 1..n |-> Null],
                    !.visitors[t] = [v EXCEPT !.pc = "copy",
                                              !.start = Len(m.mark_stack_) + 1,
                                              !.storage = m.storage]]
     /\ phase' = phase /\ layout' = layout /\ MarkingFrame

\* Flush, lines 4203-4206, lock_ not held: one reference is written through
\* start.  When the stack was expanded since the slots were reserved, start
\* points into the memory the stack had before: the write is lost, or faults.
\* After the last one Flush returns, to Push or to the end of the visitor.
FlushCopy(t) ==
  LET v == marking.visitors[t]
      n == Len(v.roots_)
  IN /\ phase = "marking" /\ marking.pc = "MarkRootsCheckpoint"
     /\ v.pc = "copy"
     /\ IF n > 0
        THEN LET to == [v EXCEPT !.roots_ = SubSeq(@, 1, n - 1), !.start = @ + 1]
             IN IF v.storage = marking.storage
                THEN marking' = [marking EXCEPT !.mark_stack_[v.start] = v.roots_[n],
                                                !.visitors[t] = to]
                ELSE \E faults \in BOOLEAN :
                       marking' = [marking EXCEPT !.failed = @ \/ faults,
                                                  !.visitors[t] = to]
        ELSE marking' =
               [marking EXCEPT
                  !.visitors[t] = [v EXCEPT !.pc = IF v.pending = Null /\ v.todo = << >>
                                                   THEN "done" ELSE "visit",
                                            !.roots_ = IF v.pending = Null THEN << >>
                                                       ELSE <<v.pending>>,
                                            !.pending = Null]]
     /\ phase' = phase /\ layout' = layout /\ MarkingFrame

\* Every thread has passed the barrier (line 4271).
CheckpointDone ==
  /\ phase = "marking" /\ marking.pc = "MarkRootsCheckpoint"
  /\ \A t \in Visitors : marking.visitors[t].pc = "done"
  /\ marking' = [marking EXCEPT !.pc = "MarkNonThreadRoots"]
  /\ phase' = phase /\ layout' = layout /\ MarkingFrame

\* MarkingPhase is at MarkRootsCheckpoint, each thread with roots of its own.
CheckpointInit ==
  /\ layout = UnitLayout(PageWords, 2 * PageWords)
  /\ use_uffd_sigbus_ = TRUE
  /\ moving_pages_status_ = << >>
  /\ compaction_in_progress_count_ = 0
  /\ compaction_buffer_counter_ = 1
  /\ last_reclaimed_page_ = 0 /\ last_reclaimable_page_ = 0 /\ cur_reclaimable_page_ = 0
  /\ last_checked_reclaim_page_idx_ = 0 /\ class_after_obj_iter_ = 1
  /\ end_idx_for_mapping = 0
  /\ from_space = << >> /\ to_space = << >> /\ compacted = << >> /\ published = << >>
  /\ th = [t \in Threads |-> Thread0]
  /\ minor_fault_initialized_ = FALSE
  /\ state_arr = [q \in 0..LinearPages - 1 |-> "kUnprocessed"]
  /\ la = [t \in Threads |-> La0]
  /\ uffd_ = "kFdUnused" /\ uffd_initialized_ = FALSE
  /\ gHaveMremapDontunmap = TRUE
  /\ is_zygote = FALSE
  /\ registered = FALSE /\ phase = "marking" /\ cycle = 1 /\ paths = NoPaths
  /\ roots = << >> /\ weaks = << >> /\ linear_alloc_arenas_ = {}
  /\ term = Term0
  /\ \E rs \in [Visitors -> SUBSET PrePauseAddrs(layout)], c \in 1..2 :
       marking = [Marking0 EXCEPT
                    !.pc = "MarkRootsCheckpoint",
                    !.trace = <<"InitializePhase", "MarkingPhase">>,
                    !.capacity = c,
                    !.chunk_info_vec_ = [k \in 0..vector_length_(layout) - 1 |-> 0],
                    !.updated = [a \in PrePauseAddrs(layout) |-> 0],
                    !.cards = [a \in PrePauseAddrs(layout) |-> "clean"],
                    !.roots = UNION {rs[t] : t \in Visitors},
                    !.visitors = [t \in Visitors |->
                                    [Visitor0 EXCEPT !.todo = AscendingSeq(rs[t])]]]

CheckpointNext ==
  \/ \E t \in Visitors :
       VisitThreadRoot(t) \/ VisitorEnd(t) \/ FlushReserve(t) \/ FlushCopy(t)
  \/ CheckpointDone

CheckpointSpec == CheckpointInit /\ [][CheckpointNext]_vars

FairInit == Init /\ use_uffd_sigbus_ = TRUE

FairSpec == FairInit /\ [][Next]_vars /\ WF_vars(Progress)

\* ------------------------------------------------------------- properties
UsedPages == 0..N - 1
CompactedPages == {p \in UsedPages : first_obj(p) # Null}

\* C1: the compaction work of a page is never run twice in a cycle, and when
\* the GC thread has finished its loop and its wait, exactly one party has
\* run it for every page that has something to compact.
C1_CompactedOnce ==
  /\ \A p \in UsedPages : compacted[p] <= 1
  /\ gc.pc \in {"unregister", "done"} => \A p \in CompactedPages : compacted[p] = 1

\* Two mutators fault on the same page, one has won the page and compacted
\* it, the other has lost the compare-and-swap.
C1_Witness ==
  \E h1, h2 \in Mutators :
    /\ h1 # h2 /\ th[h1].idx = th[h2].idx
    /\ th[h1].pc = "store_mapping" /\ compacted[th[h1].idx] = 1
    /\ th[h2].pc = "dec" /\ ~th[h2].success /\ th[h2].raw.state = "kMutatorProcessing"

\* The address an object has when the cycle is over: the objects marked before
\* the pause are packed in address order from the start of the space, the
\* black allocations follow at the next page boundary in their old order.
LiveWordsBelow(l, a) ==
  Cardinality({w \in 0..a - 1 :
                 \E o \in PrePauseObjs(l) : o.marked /\ o.addr <= w /\ w < o.addr + o.size})
TranslatedAddress(l, a) ==
  IF a >= l.black_allocations_begin_
  THEN AlignUp(LiveWordsBelow(l, l.black_allocations_begin_), PageWords)
         + (a - l.black_allocations_begin_)
  ELSE LiveWordsBelow(l, a)

\* Word k of object o as a reader has to find it after the cycle.
ExpectedWord(l, o, k) ==
  LET v == FromWord(l, o.addr + k)
  IN IF v >= 0 THEN TranslatedAddress(l, v) ELSE v

\* What a read of to-space word a yields.
ToSpaceWord(a) ==
  LET c == to_space[a \div PageWords]
  IN IF c \in DOMAIN layout.compacted THEN layout.compacted[c].w[a % PageWords]
     ELSE IF c = ZeroPage THEN ZeroWord
     ELSE StaleWord

\* C2: when the cycle is over, every live object (marked, or allocated black)
\* is read in to-space at its translated address, its data words as they were
\* before compaction and its class and reference words holding the translated
\* address of the object they referred to.
C2_ObjectsPreserved ==
  gc.pc = "done" =>
    \A o \in LiveObjs(layout) : \A k \in 0..o.size - 1 :
      ToSpaceWord(TranslatedAddress(layout, o.addr) + k) = ExpectedWord(layout, o, k)

\* The cycle is over, mutators compacted pages into buffers of their own and
\* the GC thread compacted pages into from-space pages it had reclaimed.
C2_Witness ==
  /\ gc.pc = "done"
  /\ compaction_buffer_counter_ > 1
  /\ last_reclaimed_page_ < black_allocations_begin_(layout)
  /\ \A p \in CompactedPages : to_space[p] = p

\* Thread h returns from ConcurrentlyProcessMovingPage in this step, from a
\* fault on a page of the used part of the moving space.
ReturnsFromUsedPage(h) ==
  /\ th[h].pc # "idle" /\ th'[h].pc = "idle"
  /\ th[h].idx < N

\* C3 as stated: in SIGBUS mode the page of the fault is kProcessedAndMapped
\* whenever the handler returns.
C3_ReturnsMapped ==
  [][\A h \in Mutators :
       use_uffd_sigbus_ /\ ReturnsFromUsedPage(h) =>
         moving_pages_status_'[th[h].idx].state = "kProcessedAndMapped"]_vars

\* C3: in SIGBUS mode, when the handler returns from a fault on a page with a
\* first object, the page is kProcessedAndMapped and the compacted content of
\* the page is mapped; when it returns from a fault on a page without a first
\* object, the page is kProcessedAndMapping or kProcessedAndMapped.
C3_ReturnsMappedOrZeroMapping ==
  [][\A h \in Mutators :
       use_uffd_sigbus_ /\ ReturnsFromUsedPage(h) =>
         IF first_obj(th[h].idx) # Null
         THEN /\ moving_pages_status_'[th[h].idx].state = "kProcessedAndMapped"
              /\ to_space'[th[h].idx] = th[h].idx
         ELSE moving_pages_status_'[th[h].idx].state \in
                {"kProcessedAndMapping", "kProcessedAndMapped"}]_vars

\* In SIGBUS mode one mutator has returned from its fault on the page without
\* a first object while the other, which had claimed the page, is still in
\* its zero-page ioctl: nothing else has happened, so the fault of the first
\* was on that page.
C3_Witness ==
  /\ use_uffd_sigbus_ /\ gc.pc = "start"
  /\ published[N] = 0
  /\ \A p \in CompactedPages : State(p) = "kUnprocessed"
  /\ \E h1, h2 \in Mutators :
       /\ th[h1].pc = "idle" /\ th[h1].faults = 1
       /\ th[h2].pc = "ioctl" /\ th[h2].io_zero /\ th[h2].io_dst < N
       /\ State(th[h2].io_dst) = "kProcessedAndMapping"

\* The indices of the to-space pages.
PageIds == UNION {0..NumPages(l) - 1 : l \in Heaps}

\* Thread h has found the page of its fault in the hands of somebody else
\* and waits.
WaitsOn(h) ==
  /\ use_uffd_sigbus_
  /\ th[h].pc = "loop" /\ Busy(th[h].raw.state)

\* Page p is past kUnprocessed and not yet kProcessedAndMapped.
Intermediate(p) ==
  /\ p \in DOMAIN moving_pages_status_
  /\ State(p) \notin {"kUnprocessed", "kProcessedAndMapped"}

\* C4: in SIGBUS mode, with fair scheduling and ioctls that return, a handler
\* that waits on a page in progress stays in its loop on that page until it
\* reads kProcessedAndMapped for it, it does return, and no page stays in an
\* intermediate state for ever.
C4_WaiterObservesMapped ==
  /\ [][\A h \in Mutators :
          /\ WaitsOn(h) => th'[h].pc = "loop" /\ th'[h].idx = th[h].idx
          /\ use_uffd_sigbus_ /\ th[h].pc = "loop" /\ th'[h].pc = "idle" =>
               th[h].raw.state = "kProcessedAndMapped"]_vars
  /\ \A h \in Mutators : []<>(use_uffd_sigbus_ => th[h].pc = "idle")
  /\ \A p \in PageIds : []<>(use_uffd_sigbus_ => ~Intermediate(p))

\* In SIGBUS mode a handler waits on a page that another mutator is
\* compacting.
C4_Witness ==
  \E h \in Mutators :
    /\ WaitsOn(h)
    /\ th[h].raw.state = "kMutatorProcessing"
    /\ State(th[h].idx) = "kMutatorProcessing"

\* The place of a page state in the lifecycle order.
Rank(s) ==
  CASE s = "kUnprocessed" -> 0
    [] s \in {"kProcessing", "kMutatorProcessing"} -> 1
    [] s = "kProcessingAndMapping" -> 2
    [] s = "kProcessed" -> 3
    [] s = "kProcessedAndMapping" -> 4
    [] s = "kProcessedAndMapped" -> 5

\* No step takes a page of the moving space back in the lifecycle order.
MovingForward ==
  \A p \in DOMAIN moving_pages_status_ :
    Rank(moving_pages_status_'[p].state) >= Rank(moving_pages_status_[p].state)

\* Thread t, in MapProcessedPages after a publish call that mapped only a
\* prefix of the claimed run, puts page q of the suffix back to kProcessed.
Rewinds(t, q) ==
  /\ la[t].pc = "p_rewind" /\ q = la[t].p_idx - 1
  /\ state_arr[q] = "kProcessedAndMapping" /\ state_arr'[q] = "kProcessed"

Mapped(p) == p \in DOMAIN moving_pages_status_ /\ State(p) = "kProcessedAndMapped"

\* Mutator h takes a fault on to-space page p in this step.
FaultsOn(h, p) == th[h].pc = "idle" /\ th'[h].pc # "idle" /\ th'[h].idx = p

\* The handler of h is at the head of its work for a fault on page p that
\* it has found kProcessedAndMapped, or, when p has no first object, at the
\* first compare-and-swap of the zero-page path.
AtHeadOn(h, p) ==
  /\ th[h].idx = p
  /\ \/ th[h].pc = "loop" /\ th[h].raw.state = "kProcessedAndMapped"
     \/ th[h].pc = "z_claim" /\ th[h].length = 0

\* C6: once a page is kProcessedAndMapped no step changes its state, runs
\* CompactPage or SlideBlackPage for it, or issues a publish call for it, and
\* a handler that takes a fault on it returns with its next step.
C6_MappedIsFinal ==
  [][\A p \in PageIds :
       Mapped(p) =>
         /\ moving_pages_status_'[p] = moving_pages_status_[p]
         /\ compacted'[p] = compacted[p]
         /\ published'[p] = published[p]
         /\ to_space'[p] = to_space[p]
         /\ \A h \in Mutators :
              /\ FaultsOn(h, p) =>
                   \/ th'[h].pc = "loop" /\ th'[h].raw.state = "kProcessedAndMapped"
                   \/ th'[h].pc = "z_claim" /\ th'[h].length = 0
              /\ AtHeadOn(h, p) /\ th'[h] # th[h] =>
                   /\ th'[h].pc = "idle"
                   /\ compaction_in_progress_count_' = compaction_in_progress_count_
                   /\ from_space' = from_space]_vars

\* A handler has taken a fault on a page that was compacted and published
\* once and is kProcessedAndMapped, and is about to return.
C6_Witness ==
  \E h \in Mutators :
    /\ AtHeadOn(h, th[h].idx) /\ Mapped(th[h].idx)
    /\ first_obj(th[h].idx) # Null
    /\ compacted[th[h].idx] = 1 /\ published[th[h].idx] = 1

\* The same on a page that has no first object and holds the zero page.
C6_ZeroWitness ==
  \E h \in Mutators :
    /\ AtHeadOn(h, th[h].idx) /\ Mapped(th[h].idx)
    /\ first_obj(th[h].idx) = Null /\ to_space[th[h].idx] = ZeroPage

\* C7: when CompactionPhase has finished CompactMovingSpace and its wait for
\* compaction_in_progress_count_, and from then on, every used page with a
\* first object is kProcessedAndMapped.
C7_AllMappedBeforeUnregister ==
  gc.pc \in {"unregister", "done"} => \A p \in CompactedPages : Mapped(p)

\* CompactionPhase is about to unregister the moving space in a cycle in
\* which the mutators took faults and compacted pages into their own buffers.
C7_Witness ==
  /\ gc.pc = "unregister"
  /\ SumFaults(Mutators) = MaxFaults
  /\ compaction_buffer_counter_ > 1
  /\ \A p \in CompactedPages : published[p] >= 1

\* The used pages whose compaction has not run yet: still to be taken, or
\* taken by a party that has not run CompactPage or SlideBlackPage yet.
NotYetCompacted == {p \in CompactedPages : compacted[p] = 0}

\* C8: while a page is not yet compacted, every from-space page its
\* compaction reads, the pages of the classes of its objects included, still
\* holds the heap (it is neither released nor written as a buffer), and the
\* page the GC thread is about to write as a buffer is none of them.
C8_SourcesKept ==
  \A p \in NotYetCompacted :
    /\ \A f \in ReadPages(layout, p) : from_space[f] = Source
    /\ gc.pc = "func" => gc.page \notin ReadPages(layout, p)

\* FreeFromSpacePages has released from-space pages and the GC thread
\* compacts into a from-space page, while pages are still to be compacted.
C8_Witness ==
  /\ NotYetCompacted # {}
  /\ \E f \in DOMAIN from_space : from_space[f] = Released
  /\ gc.pc = "func" /\ gc.page # reserve_page

\* The compacted content of page p stands complete in a buffer, or in the
\* to-space page already.
ContentWritten(p) ==
  /\ compacted[p] >= 1
  /\ \/ \E b \in DOMAIN from_space : from_space[b] = p
     \/ to_space[p] = p

\* A publish call for page p is under way.
BeingPublished(p) ==
  \E t \in Threads :
    th[t].pc = "ioctl" /\ p >= th[t].io_dst /\ p < th[t].io_dst + th[t].io_len

\* C9: a page with a first object that is kProcessed has its complete
\* compacted content in the from-space page its status word names, one that
\* is kProcessedAndMapping or kProcessedAndMapped has it in a buffer or in
\* place; and a page that is kProcessedAndMapped has had its publish call,
\* the call has returned, and the page holds its compacted content when it
\* has a first object.
C9_StateAfterContent ==
  \A p \in UsedPages :
    /\ first_obj(p) # Null /\ State(p) = "kProcessed" =>
         compacted[p] >= 1 /\ from_space[moving_pages_status_[p].off] = p
    /\ first_obj(p) # Null /\ State(p) \in {"kProcessedAndMapping", "kProcessedAndMapped"} =>
         ContentWritten(p)
    /\ Mapped(p) =>
         /\ published[p] >= 1 /\ ~BeingPublished(p)
         /\ first_obj(p) # Null => to_space[p] = p

\* One page waits kProcessed in a from-space page, another is being
\* published, a third is kProcessedAndMapped.
C9_Witness ==
  \E p, q, r \in CompactedPages :
    /\ State(p) = "kProcessed"
    /\ State(q) = "kProcessedAndMapping" /\ BeingPublished(q)
    /\ Mapped(r)

\* The buffer thread t compacts into.
WritesTo(t) == IF t = GcThread THEN th[t].page ELSE th[t].buf

\* The pages of compaction_buffers_map_ that are handed to the mutators and
\* to the workers.
MutatorBuffers == {CompactionBuffer(layout, i) : i \in 1..kMutatorCompactionBufferCount}

\* The pages that are compacted and not yet published.
Unpublished == {p \in CompactedPages : compacted[p] >= 1 /\ published[p] = 0}

\* C10: the mutators and the workers have distinct pages of
\* compaction_buffers_map_, none of them buffer 0; the GC thread compacts
\* into buffer 0 or into a from-space page; and from the compaction of a page
\* until its publish call its content stays in its buffer, and no thread is
\* about to compact another page into that buffer.
C10_BufferOwned ==
  /\ \A h \in Mutators : th[h].buf # Null => th[h].buf \in MutatorBuffers
  /\ \A h1, h2 \in Mutators : h1 # h2 /\ th[h1].buf # Null => th[h1].buf # th[h2].buf
  /\ gc.pc = "func" => gc.page = reserve_page \/ gc.page < MaxPages(layout)
  /\ \A p \in Unpublished :
       /\ \E b \in DOMAIN from_space : from_space[b] = p
       /\ \A t \in Threads : th[t].pc = "func" => from_space[WritesTo(t)] # p

\* Two mutators compact pages into their buffers while the GC thread
\* compacts into a from-space page, and a page it compacted before waits
\* unpublished in another.
C10_Witness ==
  /\ \A h \in Mutators : th[h].pc \in {"func", "store_mapping"}
  /\ gc.pc = "func" /\ gc.page < MaxPages(layout)
  /\ Unpublished # {}
\* ---------------------------------------------------------------- C11
\* The thread is in, or has just returned from, the publish call it made
\* for a range of to-space pages.
InCall(t) == th[t].pc = "ioctl" /\ th[t].io_ret \in {"map_store", "z_store"}
Returned(t) ==
  \/ th[t].pc = "map_store" /\ th[t].m_i = th[t].m_idx
  \/ th[t].pc = "z_store" /\ th[t].z_len = 0
IsZero(t) == (th[t].pc = "ioctl" /\ th[t].io_ret = "z_store") \/ th[t].pc = "z_store"
\* The range the call was made for: destination, source and pages.
CallDst(t) == IF IsZero(t) THEN th[t].idx ELSE th[t].m_idx
CallSrc(t) == th[t].m_from
CallLen(t) == DivideByPageSize(IF IsZero(t) THEN th[t].length ELSE th[t].m_length)
PublishedContent(t, p) ==
  IF IsZero(t) THEN ZeroPage ELSE from_space[CallSrc(t) + (p - CallDst(t))]
PublishedOnce(t, p) == published[p] = 1 /\ to_space[p] = PublishedContent(t, p)

\* The range is unregistered, the call answers ENOENT, which the caller of
\* line 3499 tolerates: the loop ends and the page is left as it was.
Tolerated(t, p) ==
  published[p] = 1 /\ IsZero(t) /\ gc.pc = "done" /\ to_space[p] = NoContent

\* The retry is for exactly the rest of the range: destination, source and
\* length are advanced by what was done, the pages of the rest are not
\* published yet.
RetryIsForTheRest(t) ==
  /\ th[t].io_len >= 1
  /\ th[t].io_dst >= CallDst(t)
  /\ th[t].io_dst + th[t].io_len = CallDst(t) + CallLen(t)
  /\ ~IsZero(t) => th[t].io_src = CallSrc(t) + (th[t].io_dst - CallDst(t))
  /\ \A p \in th[t].io_dst..CallDst(t) + CallLen(t) - 1 :
       published[p] = 0 /\ to_space[p] = NoContent

\* The step in which the loop of a call ends that had asked again.
EndsAfterRetry(t) == InCall(t) /\ th[t].io_dst > CallDst(t) /\ Returned(t)'

\* C11 as it is stated: when a publish call mapped only a prefix of its
\* range, the retry is for exactly the rest, the pages of the prefix are
\* published once with their own content, and when the loop ends every
\* page of the original range is published, once.
C11_RetryCoversSuffix ==
  [][\A t \in Threads :
       /\ InCall(t)' =>
            /\ RetryIsForTheRest(t)'
            /\ \A p \in CallDst(t)..th[t].io_dst - 1 : PublishedOnce(t, p)'
       /\ EndsAfterRetry(t) =>
            \A p \in CallDst(t)..CallDst(t) + CallLen(t) - 1 : PublishedOnce(t, p)']_vars

\* C11, amended: the same, but a zero-page call whose range was unregistered
\* under it ends with the pages it had not mapped yet left unmapped.
C11_RetryCoversSuffixUnlessUnregistered ==
  [][\A t \in Threads :
       /\ InCall(t)' =>
            /\ RetryIsForTheRest(t)'
            /\ \A p \in CallDst(t)..th[t].io_dst - 1 :
                 PublishedOnce(t, p)' \/ Tolerated(t, p)'
       /\ EndsAfterRetry(t) =>
            \A p \in CallDst(t)..CallDst(t) + CallLen(t) - 1 :
              PublishedOnce(t, p)' \/ Tolerated(t, p)']_vars

\* A zero-page call over three pages is asking again for the last page.
C11_Witness ==
  \E t \in Threads : InCall(t) /\ IsZero(t) /\ CallLen(t) = 3 /\ th[t].io_len = 1

\* ---------------------------------------------------------------- C12
\* The run of a call of MapProcessedPages: the first page, then the pages the
\* call claimed; the suffix is what UFFDIO_CONTINUE did not map.
RunEnd(rec) == rec.p_start + DivideByPageSize(rec.p_length)
SuffixBegin(rec) == rec.p_start + DivideByPageSize(rec.p_mapped)
Suffix(rec) == SuffixBegin(rec)..RunEnd(rec) - 1
PutsBack(t) == la[t].pc = "p_rewind" /\ la'[t] # la[t]

C13_FallbackInsidePause ==
  uffd_ = "kFallbackMode" /\ phase \in {"pause", "resumed", "finish"} =>
    /\ paths.stw = 1 /\ paths.concurrent = 0 /\ paths.faults = 0 /\ ~registered
    /\ phase # "pause" => \A p \in CompactedPages : compacted[p] = 1 /\ to_space[p] = p

\* The mutators are resumed after a pause in fallback mode.
C13_Witness ==
  /\ uffd_ = "kFallbackMode" /\ phase = "resumed" /\ CompactedPages # {}
  /\ \A p \in CompactedPages : compacted[p] = 1

\* ---------------------------------------------------------------- C14
\* C14: from the compaction pause to FinishPhase uffd_ is a descriptor or
\* kFallbackMode and is not assigned, and when FinishPhase begins exactly
\* one of CompactMovingSpace<kFallbackMode> and CompactionPhase has run,
\* once.
C14_ExactlyOnePath ==
  [][/\ phase' \in {"pause", "resumed", "finish"} => uffd_' \in {"fd", "kFallbackMode"}
     /\ phase \in {"pause", "resumed"} => uffd_' = uffd_
     /\ phase' = "finish" =>
          /\ paths'.stw + paths'.concurrent = 1
          /\ paths'.stw = 1 <=> uffd_' = "kFallbackMode"]_vars

\* The zygote finishes a concurrent collection that is not its first: the
\* one before closed the descriptor.
C14_Witness ==
  is_zygote /\ cycle = 2 /\ phase = "finish" /\ IsValidFd(uffd_) /\ paths.concurrent = 1

\* ---------------------------------------------------------------- C15
\* The live objects that were allocated before the marking pause.
LivePrePause(l) == {o \in PrePauseObjs(l) : o.marked}

\* Object o is read at to-space address dst, its references translated.
FoundAt(o, dst) ==
  \A k \in 0..o.size - 1 : ToSpaceWord(dst \div kAlignment + k) = ExpectedWord(layout, o, k)

\* C15: when the heap is compacted, every live object of before the marking
\* pause is found at the offset that is the number of live bytes before it
\* in the heap as it was: the live objects are packed from the begin of the
\* space in the order they had.
C15_DenseInOrder ==
  phase = "finish" =>
    \A o \in LivePrePause(layout) :
      /\ PostCompactAddress(layout, o.addr * kAlignment)
           = LiveWordsBelow(layout, o.addr) * kAlignment
      /\ FoundAt(o, PostCompactAddress(layout, o.addr * kAlignment))

\* A heap is compacted in which live objects lie between garbage: the object
\* at 16 is live with twelve live words before it, the object at 3 is not.
C15_Witness ==
  /\ phase = "finish"
  /\ Cardinality(LivePrePause(layout)) >= 4
  /\ \E o \in LivePrePause(layout) : o.addr = 16 /\ LiveWordsBelow(layout, 16) = 12
  /\ \E o \in PrePauseObjs(layout) : ~o.marked /\ o.addr = 3

\* ---------------------------------------------------------------- C16
\* What a reference is before the compaction pause.
InMovingRegion(l, a) == a >= 0 /\ a < l.space_words * kAlignment
IsBlackAllocation(l, a) == InMovingRegion(l, a) /\ a >= l.black_allocations_begin_ * kAlignment
WasLivePrePause(l, a) ==
  /\ InMovingRegion(l, a) /\ ~IsBlackAllocation(l, a)
  /\ \E o \in LivePrePause(l) : o.addr * kAlignment = a
\* An address outside the moving space that IsMarked takes for live: in an
\* immune space, or a marked object of the non-moving or large-object space.
LiveOutside(l, a) ==
  \/ a \in immune_spaces_(l).objs
  \/ a \in non_moving_space_bitmap_(l).marked
  \/ a \in los_bitmap(l).marked

\* The two translations inside the moving region: the live words below the
\* object, and the distance kept from the end of the compacted portion.
SlidAddress(l, a) == LiveWordsBelow(l, a \div kAlignment) * kAlignment
SlideInPlaceAddress(l, a) == TranslatedAddress(l, a \div kAlignment) * kAlignment

TranslatedInside(l, e) ==
  /\ WasLivePrePause(l, e.old) => e.ref = SlidAddress(l, e.old)
  /\ IsBlackAllocation(l, e.old) => e.ref = SlideInPlaceAddress(l, e.old)

\* The roots and weaks that were visited in the compaction.
VisitedRoots == {roots[i] : i \in {j \in DOMAIN roots : roots[j].by = "compacting"}}
VisitedWeaks == {weaks[i] : i \in {j \in DOMAIN weaks : weaks[j].by = "compacting"}}

\* C16 as the specification states it: VisitRoot and IsMarked map a live
\* pre-pause address of the moving region to its slid address, a black
\* allocation to its slide-in-place address, and every address outside the
\* moving region to itself.
C16_UniformTranslation ==
  \A e \in VisitedRoots \cup VisitedWeaks :
    /\ TranslatedInside(layout, e)
    /\ ~InMovingRegion(layout, e.old) => e.ref = e.old

\* C16, amended: inside the moving region as stated, by VisitRoot and by
\* IsMarked alike; outside it VisitRoot maps every address to itself, and
\* IsMarked maps to itself an address of an immune space or a marked object
\* of the non-moving or large-object space and answers null for every other
\* address.  When the collection is over every root that held a reference
\* has been visited once, in the pause or in the compaction phase.
C16_UniformTranslationOfLive ==
  /\ \A e \in VisitedRoots :
       /\ TranslatedInside(layout, e)
       /\ ~InMovingRegion(layout, e.old) => e.ref = e.old
  /\ \A e \in VisitedWeaks :
       /\ TranslatedInside(layout, e)
       /\ ~InMovingRegion(layout, e.old) =>
            e.ref = IF LiveOutside(layout, e.old) THEN e.old ELSE Null
  /\ phase = "finish" =>
       \A i \in DOMAIN roots :
         roots[i].ref # Null =>
           roots[i].by = "compacting" /\ roots[i].old = ArenaRoots(layout)[i].ref

\* The collection is over; a root and a weak held a live pre-pause object
\* that moved, a root and a weak held a black allocation that moved, a root
\* and a weak held an object outside the moving region, and a weak held a
\* value of no space.
C16_Witness ==
  /\ phase = "finish"
  /\ \E e \in VisitedRoots : WasLivePrePause(layout, e.old) /\ e.ref # e.old
  /\ \E e \in VisitedWeaks : WasLivePrePause(layout, e.old) /\ e.ref # e.old
  /\ \E e \in VisitedRoots : IsBlackAllocation(layout, e.old) /\ e.ref # e.old
  /\ \E e \in VisitedWeaks : IsBlackAllocation(layout, e.old) /\ e.ref # e.old
  /\ \E e \in VisitedRoots : ~InMovingRegion(layout, e.old)
  /\ \E e \in VisitedWeaks : LiveOutside(layout, e.old)
  /\ \E e \in VisitedWeaks : e.old = NonReference(layout)

\* ---------------------------------------------------------------- C17
\* The marking results that differ from l in the live-words bitmap and have
\* the same end of the compacted portion.
SameEndOtherBitmap(l) ==
  {l2 \in PlanHeaps : /\ post_compact_end_(l2) = post_compact_end_(l)
                      /\ live_words_bitmap_(l2) # live_words_bitmap_(l)}

\* C17: an object allocated after the marking pause has no bit in the
\* live-words bitmap and IsMarked takes it for live, before the compaction
\* and in it; its new address is its old one less black_objs_slide_diff_,
\* the same under every live-words bitmap that leaves the compacted portion
\* the same end; and when the heap is compacted the object is read at that
\* address.
C17_BlackSlidesInPlace ==
  \A b \in BlackObjs(layout) :
    LET old == b.addr * kAlignment
        new == old - black_objs_slide_diff_(layout)
    IN /\ \A w \in b.addr..(b.addr + b.size - 1) : w \notin live_words_bitmap_(layout)
       /\ IsMarked(layout, FALSE, old) = old
       /\ IsMarked(layout, TRUE, old) = new
       /\ VisitRoot(layout, old) = new
       /\ \A l2 \in SameEndOtherBitmap(layout) : IsMarked(l2, TRUE, old) = new
       /\ \A e \in VisitedWeaks : e.old = old => e.ref = new
       /\ phase = "finish" => FoundAt(b, new)

\* A heap is compacted whose black allocation slides down, a weak that held
\* it was swept in the pause, and there is another marking result with the
\* same end of the compacted portion.
C17_Witness ==
  /\ phase = "finish"
  /\ black_objs_slide_diff_(layout) > 0
  /\ SameEndOtherBitmap(layout) # {}
  /\ \E b \in BlackObjs(layout) :
       /\ \E e \in VisitedWeaks : e.old = b.addr * kAlignment /\ e.ref # e.old
       /\ FoundAt(b, b.addr * kAlignment - black_objs_slide_diff_(layout))

\* ---------------------------------------------------------------- C18
\* The live bytes of before the marking pause, counted from the objects.
LiveBytes(l) == LiveWordsBelow(l, l.black_allocations_begin_) * kAlignment

\* C18: whatever the marking leaves live, the end of the compacted portion
\* is not above the begin of the black allocations and black_objs_slide_diff_
\* is not negative (the CHECK_GE of line 1073), and the end is the page
\* boundary the CHECK_EQ of line 1070 names.
C18_EndNotAboveBegin ==
  /\ post_compact_end_(layout) <= black_allocations_begin_(layout)
  /\ black_objs_slide_diff_(layout) >= 0
  /\ post_compact_end_(layout) = moving_first_objs_count_(layout) * gPageSize
  /\ LiveBytes(layout) <= post_compact_end_(layout)

\* A heap is compacted in which the live bytes end inside the last page
\* below the black allocations: the end of the compacted portion is rounded
\* up to their begin.
C18_Witness ==
  /\ phase = "finish"
  /\ ModuloPageSize(LiveBytes(layout)) # 0
  /\ post_compact_end_(layout) = black_allocations_begin_(layout)

\* ---------------------------------------------------------------- C19
\* The live bytes PrepareForCompaction gets from the exclusive scan (lines
\* 1052-1064).
TotalLiveBytes(l) == l.prepared.total
\* The bytes in use below the black allocations before the compaction, and
\* those of them the marking found to be garbage.
UsedBytes(l) == black_allocations_begin_(l)
GarbageBytes(l) == UsedBytes(l) - LiveBytes(l)
\* Where the first black allocation is read when the heap is compacted.
BlackLandsAt(a) ==
  \A b \in BlackObjs(layout) :
    b.addr = layout.black_allocations_begin_ => FoundAt(b, a)

\* C19 as the specification states it: when the heap is compacted, the end
\* of the compacted portion is exactly the bytes in use less the garbage
\* bytes, the total of the exclusive scan.
C19_EndIsLiveBytes ==
  phase = "finish" =>
    /\ TotalLiveBytes(layout) = UsedBytes(layout) - GarbageBytes(layout)
    /\ post_compact_end_(layout) = TotalLiveBytes(layout)

\* C19, amended: the total of the exclusive scan is exactly the bytes in use
\* less the garbage bytes, and the end of the compacted portion is that
\* total rounded up to the page size; the black allocations are read from
\* that end on, and black_objs_slide_diff_, the bytes recorded as freed, is
\* the garbage bytes less the rounding.
C19_EndIsLiveBytesRoundedUp ==
  phase = "finish" =>
    /\ TotalLiveBytes(layout) = UsedBytes(layout) - GarbageBytes(layout)
    /\ post_compact_end_(layout) = AlignUp(TotalLiveBytes(layout), gPageSize)
    /\ black_objs_slide_diff_(layout)
         = GarbageBytes(layout) - (post_compact_end_(layout) - TotalLiveBytes(layout))
    /\ BlackLandsAt(post_compact_end_(layout))

\* A heap is compacted that held garbage and whose live bytes end inside a
\* page, below the last page before the black allocations.
C19_Witness ==
  /\ phase = "finish"
  /\ GarbageBytes(layout) > 0
  /\ ModuloPageSize(TotalLiveBytes(layout)) # 0
  /\ post_compact_end_(layout) < black_allocations_begin_(layout)
  /\ BlackObjs(layout) # {}

\* ---------------------------------------------------------------- C20
\* The live objects of the moving space, those of before the marking pause
\* and the black allocations.
Relocated(l) == LivePrePause(l) \cup BlackObjs(l)

\* C20: the address of a live object after the compaction, as IsMarked and
\* VisitRoot give it and as the object is read when the heap is compacted,
\* is not above its address before; no root and no weak that was visited
\* in the compaction holds a higher address of the moving space than
\* before.
C20_NeverUpwards ==
  /\ \A o \in Relocated(layout) :
       LET old == o.addr * kAlignment
       IN /\ IsMarked(layout, TRUE, old) # Null
          /\ IsMarked(layout, TRUE, old) <= old
          /\ VisitRoot(layout, old) <= old
          /\ PostCompactAddress(layout, old) <= old
          /\ phase = "finish" => FoundAt(o, IsMarked(layout, TRUE, old))
  /\ \A e \in VisitedRoots \cup VisitedWeaks :
       InMovingRegion(layout, e.old) /\ e.ref # Null => e.ref <= e.old

\* A heap is compacted in which a live object of before the marking pause
\* stays where it was, another one moves down, and a black allocation moves
\* down.
C20_Witness ==
  /\ phase = "finish"
  /\ \E o \in LivePrePause(layout) : IsMarked(layout, TRUE, o.addr * kAlignment) = o.addr * kAlignment
  /\ \E o \in LivePrePause(layout) : IsMarked(layout, TRUE, o.addr * kAlignment) < o.addr * kAlignment
  /\ \E o \in BlackObjs(layout) : IsMarked(layout, TRUE, o.addr * kAlignment) < o.addr * kAlignment

\* ------------------------------------------------------------------- C21
\* The entries of a histogram from entry a up to entry b - 1, added up.
RECURSIVE HistogramSum(_, _, _)
HistogramSum(H, a, b) == IF a >= b THEN 0 ELSE H[a] + HistogramSum(H, a + 1, b)

\* The plan has been made of what the marking of this collection recorded.
PlanMade == marking.pc = "compaction" /\ phase # "idle"

\* The entries the scan of line 1063 went over.
ScannedEntries(l) ==
  LET vector_len == (l.black_allocations_begin_ * kAlignment) \div kOffsetChunkSize
  IN IF vector_len < vector_length_(l) THEN vector_len + 1 ELSE vector_len

VectorIsFull(l) ==
  (l.black_allocations_begin_ * kAlignment) \div kOffsetChunkSize = vector_length_(l)

\* C21: when the plan is made of a histogram H of live bytes per chunk, every
\* entry i that the exclusive scan went over holds the sum of H[0..i), these
\* entries do not decrease, and the total is the sum of all the entries of
\* H, whether the used span fills the vector or not.
C21_PrefixSumsAndTotal ==
  PlanMade =>
    LET H == layout.liveness.vec
        scanned == layout.prepared.chunk_info_vec_
        n == ScannedEntries(layout)
    IN /\ \A i \in 0..n - 1 : scanned[i] = HistogramSum(H, 0, i)
       /\ \A i \in 1..n - 1 : scanned[i - 1] <= scanned[i]
       /\ layout.prepared.total = HistogramSum(H, 0, vector_length_(layout))

\* The used span fills the vector, its last chunk holds live bytes, and so
\* does a chunk before it.
C21_Witness ==
  /\ PlanMade /\ VectorIsFull(layout)
  /\ layout.liveness.vec[vector_length_(layout) - 1] > 0
  /\ layout.prepared.total > layout.liveness.vec[vector_length_(layout) - 1]

\* ------------------------------------------------------------------- C22
\* The live words of before the marking pause.
LiveWordCount(l) == LiveWordsBelow(l, l.black_allocations_begin_)

PagesOf(words) == (words + PageWords - 1) \div PageWords

\* C22: the planner produces a page for every page's worth of live bytes
\* and no more; for every page p it produces, pre_compact_offset_moving_space_[p]
\* is the live word with exactly p pages' worth of live words before it, and
\* first_objs_moving_space_[p] is the live object that word belongs to.
C22_FirstObjectOfEveryPage ==
  PlanMade =>
    LET plan == layout.prepared
    IN /\ plan.moving_first_objs_count_ = PagesOf(LiveWordCount(layout))
       /\ \A p \in 0..plan.moving_first_objs_count_ - 1 :
            LET off == plan.pre_compact_offset_moving_space_[p]
            IN /\ off \in layout.liveness.bitmap
               /\ LiveWordsBelow(layout, off) = p * PageWords
               /\ \E o \in LivePrePause(layout) :
                    /\ o.addr = plan.first_objs_moving_space_[p]
                    /\ o.addr <= off /\ off < o.addr + o.size

\* One object is the first object of three pages.
C22_Witness ==
  /\ PlanMade
  /\ LET plan == layout.prepared
     IN /\ plan.moving_first_objs_count_ = 3
        /\ plan.first_objs_moving_space_[1] = plan.first_objs_moving_space_[0]
        /\ plan.first_objs_moving_space_[2] = plan.first_objs_moving_space_[0]
        /\ plan.pre_compact_offset_moving_space_[2] = 2 * PageWords

\* ------------------------------------------------------------------- C23
\* The marking pause has emptied the mark stack and the plan is not made.
MarkingComplete ==
  phase = "marking" /\ marking.pc \in {"MarkingPauseEnd", "ReclaimPhase", "PrepareForCompaction"}

\* The live bytes the live-words bitmap holds for a chunk.
LiveBytesInBitmapWord(bitmap, c) ==
  Cardinality({w \in bitmap : (w * kAlignment) \div kOffsetChunkSize = c}) * kAlignment

PauseReturns == phase = "marking" /\ marking.pc = "MarkingPauseEnd"

C25_LiveWordsFrozen ==
  [][ /\ (PlanMade /\ phase # "finish") =>
           /\ marking.live_words_bitmap_ = layout.liveness.bitmap
           /\ marking'.live_words_bitmap_ = marking.live_words_bitmap_
      /\ (PlanMade /\ phase = "finish") => marking'.live_words_bitmap_ = {} ]_vars

\* The compaction of a heap with live words has run with the mutators, and
\* the compaction pause has set mark bits for the black allocations.
C25_Witness ==
  /\ PlanMade /\ phase = "finish" /\ paths.concurrent = 1
  /\ marking.live_words_bitmap_ # {}
  /\ layout.black.black_marks # {}
  /\ layout.black.black_marks \subseteq marking.moving_space_bitmap_
  /\ layout.black.black_marks \cap marking.live_words_bitmap_ = {}

\* ------------------------------------------------------------------- C26
InMarkStack(obj) == \E i \in 1..Len(marking.mark_stack_) : marking.mark_stack_[i] = obj

\* The flushes of the thread are through with the object.
Flushed(t, obj) ==
  LET v == marking.visitors[t]
  IN obj # v.pending /\ \A i \in 1..Len(v.roots_) : v.roots_[i] # obj

\* C26: a push never fails and never loses an entry: every object that a
\* thread has pushed, and is through flushing, is in the mark stack, whatever
\* growth of the stack there was meanwhile.
C26_PushNeverLoses ==
  marking.pc = "MarkRootsCheckpoint" =>
    /\ ~marking.failed
    /\ \A obj \in marking.pushed :
         (\A t \in Visitors : Flushed(t, obj)) => InMarkStack(obj)

\* ------------------------------------------------------------------- C27
\* C27: the GC thread begins at the last used page and goes down one page
\* at a time; of a page it passes, it attempts the one that has a first
\* object (and compacts it when the page is still unprocessed) and does not
\* touch the one that has none; it leaves the loops only below page 0.  So
\* it attempts every page that has a first object exactly once, in
\* descending order.
C27_DescendingOnce ==
  [][ LET i == gc.idx - 1
          gc1 == th'[GcThread]
      IN /\ gc1.idx # gc.idx =>
              \/ gc.pc = "start" /\ gc1.idx = N
              \/ gc.pc = "page" /\ gc.idx > 0 /\ gc1.idx = i
         /\ (gc.pc = "page" /\ gc1 # gc) =>
              IF gc.idx = 0 THEN gc1.pc # "page"
              ELSE /\ gc1.idx = i
                   /\ IF first_obj(i) = Null
                      THEN gc1.pc = "page" /\ moving_pages_status_' = moving_pages_status_
                      ELSE IF State(i) = "kUnprocessed"
                      THEN /\ gc1.pc = "func"
                           /\ moving_pages_status_'[i].state
                                \in {"kProcessing", "kProcessingAndMapping"}
                      ELSE gc1.pc # "func" /\ moving_pages_status_' = moving_pages_status_
    ]_vars

\* The GC thread is through with the pages of a heap that has a black page
\* with no first object, a page was compacted, and a mutator took a fault
\* meanwhile.
C27_Witness ==
  /\ gc.pc = "wait" /\ gc.idx = 0 /\ N >= 3
  /\ \E p \in 0..N - 1 : first_obj(p) = Null
  /\ \E p \in 0..N - 1 : compacted[p] = 1 /\ \E h \in Mutators : th[h].faults > 0

\* ------------------------------------------------------------------- C28
\* The phases of a collection in the order of RunPhases, with the
\* compaction phase or without it.
PhaseOrder(concurrent) ==
  BeforeFlip \o <<"CompactionPause">>
    \o (IF concurrent THEN <<"CompactionPhase">> ELSE << >>) \o <<"FinishPhase">>

IsPrefix(a, b) == Len(a) <= Len(b) /\ SubSeq(b, 1, Len(a)) = a

Pauses == {"MarkingPause", "CompactionPause"}

PausesIn(trace) == Cardinality({i \in 1..Len(trace) : trace[i] \in Pauses})

CollectionOver == cycle > 0 /\ phase = "idle"

\* C28: the phases of a collection begin in the order InitializePhase,
\* MarkingPhase, MarkingPause, ReclaimPhase, PrepareForCompaction,
\* CompactionPause, CompactionPhase (when there is a descriptor, and only
\* then), FinishPhase; the mutators are suspended in MarkingPause and in
\* CompactionPause and at no other time, once for each, so twice in the
\* collection.
C28_PhasesAndPauses ==
  /\ \E concurrent \in BOOLEAN : IsPrefix(marking.trace, PhaseOrder(concurrent))
  /\ marking.pauses = PausesIn(marking.trace)
  /\ marking.suspended =>
       marking.trace # << >> /\ marking.trace[Len(marking.trace)] \in Pauses
  /\ CollectionOver =>
       /\ marking.trace = PhaseOrder(paths.concurrent = 1)
       /\ paths.concurrent = 1 <=> paths.stw = 0
       /\ marking.pauses = 2
       /\ ~marking.suspended

\* The collection is over, its compaction was done with the mutators
\* running, after a marking in which a mutator wrote a reference.
C28_Witness ==
  /\ CollectionOver /\ paths.concurrent = 1 /\ paths.faults > 0
  /\ marking.writes > 0
  /\ Len(marking.trace) = 8

\* ------------------------------------------------------------------- C29
\* A heap whose only TLAB spans six pages and holds three objects, in its
\* first three pages: the three pages after them have no first object.
TlabLayout ==
  [ objs |-> << Obj(0, 3, Null, TRUE, <<Null, Null>>),
                Obj(3, 1, Null, FALSE, <<>>) >>,
    black_allocations_begin_ |-> 4,
    first_block_size |-> 4,
    blocks |-> << [size |-> 24, owner |-> 1,
                   objs |-> << Obj(4, 3, Null, TRUE, <<0, Null>>),
                               Obj(7, 5, Null, TRUE, <<Null, Null, Null, Null>>),
                               Obj(12, 2, Null, TRUE, <<0>>) >>] >>,
    space_words |-> 28 ]

TlabHeaps ==
  {WithMutatorPages(WithPages(AfterClassMap(AfterBlackAllocations(AfterPrepare(AfterMarking(TlabLayout))))))}

\* The compaction phase begins, on the heaps of Init or on a heap of TlabHeaps.
TlabInit ==
  \/ Init
  \/ /\ layout \in TlabHeaps
     /\ use_uffd_sigbus_ \in BOOLEAN
     /\ moving_pages_status_ = [p \in 0..NumPages(layout) - 1 |-> St("kUnprocessed")]
     /\ compaction_in_progress_count_ = 0
     /\ compaction_buffer_counter_ = 1
     /\ last_reclaimed_page_ = 0 /\ last_reclaimable_page_ = 0 /\ cur_reclaimable_page_ = 0
     /\ last_checked_reclaim_page_idx_ = 0 /\ class_after_obj_iter_ = 1
     /\ end_idx_for_mapping = 0
     /\ from_space = [b \in BufferIds(layout) |->
                        IF b < MaxPages(layout) THEN Source ELSE NoContent]
     /\ to_space = [p \in 0..NumPages(layout) |-> NoContent]
     /\ th = [t \in Threads |->
                IF t = GcThread THEN [Thread0 EXCEPT !.pc = "start"]
                ELSE [Thread0 EXCEPT !.buf = IF use_uffd_sigbus_ THEN Null
                                             ELSE CompactionBuffer(layout, t)]]
     /\ compacted = [p \in 0..NumPages(layout) - 1 |-> 0]
     /\ published = [p \in 0..NumPages(layout) |-> 0]
     /\ minor_fault_initialized_ = FALSE
     /\ state_arr = [q \in 0..LinearPages - 1 |-> "kUnprocessed"]
     /\ la = [t \in Threads |-> La0]
     /\ InCompactionPhase

TlabSpec == TlabInit /\ [][Next]_vars

\* The pages a handler on the zero-page path has claimed.
ZPages(rec) == rec.idx .. rec.idx + DivideByPageSize(rec.length) - 1

\* The handler has called ZeropageIoctl once, for the pages it claimed.
OneZeroCall(rec) ==
  /\ rec.pc = "ioctl" /\ rec.io_zero /\ rec.io_ret = "z_store"
  /\ rec.io_dst = rec.idx /\ rec.io_len = DivideByPageSize(rec.length) /\ rec.io_len >= 1

\* What a handler on the zero-page path does in a step, but for what the
\* call publishes and for the fault page being claimed: it is there for a
\* page without a first object; the pages it claims are the fault page and
\* the unprocessed pages that follow it without a gap, up to the end of its
\* TLAB; it calls ZeropageIoctl once for all of them; no page of them is
\* compacted or slid; and then it sets them, one after the other and no other
\* page, to kProcessedAndMapped.
ZeroPathStep(h) ==
  LET v == th[h]
      v1 == th'[h]
  IN /\ v.pc = "z_claim" => first_obj(v.idx) = Null
     /\ (v.pc = "z_claim" /\ v1.pc = "ioctl") =>
          /\ OneZeroCall(v1)
          /\ \A p \in ZPages(v1) :
               /\ p < v.end_idx
               /\ moving_pages_status_'[p] = St("kProcessedAndMapping")
               /\ compacted[p] = 0
          /\ LET next == v.idx + v1.io_len
             IN next < v.end_idx => moving_pages_status_[next] # St("kUnprocessed")
     /\ (v.pc = "ioctl" /\ v1.pc = "z_store") =>
          /\ v1.z_len = 0
          /\ \A p \in ZPages(v1) : compacted'[p] = 0 /\ published'[p] = 1
     /\ v.pc = "z_store" =>
          /\ v1 # v
               => \A p \in DOMAIN moving_pages_status_ :
                    moving_pages_status_'[p] =
                      IF p = v.idx + DivideByPageSize(v.z_len) THEN St("kProcessedAndMapped")
                      ELSE moving_pages_status_[p]
          /\ (v1 # v /\ v1.pc = "z_store") => v1.z_len = v.z_len + gPageSize
          /\ (v1 # v /\ v1.pc # "z_store") => v.z_len + gPageSize = v.length

\* C29 as stated: a fault on a page without a first object is resolved by
\* the faulting party, which claims the fault page and the unprocessed pages
\* of its TLAB after it, publishes zero content for all of them with one
\* call of ZeropageIoctl, and sets exactly these pages to kProcessedAndMapped,
\* without CompactPage or SlideBlackPage.
C29_ZeroRangePublished ==
  [][\A h \in Mutators :
       /\ ZeroPathStep(h)
       /\ (th[h].pc = "z_claim" /\ th'[h].pc # "z_claim") => th'[h].pc = "ioctl"
       /\ (th[h].pc = "ioctl" /\ th'[h].pc = "z_store") =>
            \A p \in ZPages(th'[h]) : to_space'[p] = ZeroPage]_vars

\* C29, amended: the same, but the faulting party claims and publishes
\* nothing when another party has claimed the fault page before it, and the
\* call publishes nothing for the pages that are not mapped yet when the
\* moving space has been unregistered meanwhile.
C29_ZeroRangeOfTheClaimant ==
  [][\A h \in Mutators :
       /\ ZeroPathStep(h)
       /\ (th[h].pc = "z_claim" /\ th'[h].pc # "z_claim") =>
            \/ th'[h].pc = "ioctl"
            \/ /\ th'[h].pc = "idle" /\ th[h].length = 0
               /\ moving_pages_status_[th[h].idx] # St("kUnprocessed")
       /\ (th[h].pc = "ioctl" /\ th'[h].pc = "z_store") =>
            \A p \in ZPages(th'[h]) :
              \/ to_space'[p] = ZeroPage
              \/ to_space'[p] = NoContent /\ gc.pc = "done"]_vars

\* A handler has claimed two pages without a first object, published them
\* with one call and set the first of them to kProcessedAndMapped.
C29_Witness ==
  \E h \in Mutators :
    /\ th[h].pc = "z_store" /\ th[h].length = 2 * gPageSize /\ th[h].z_len = gPageSize
    /\ \A p \in ZPages(th[h]) :
         first_obj(p) = Null /\ to_space[p] = ZeroPage /\ published[p] = 1 /\ compacted[p] = 0
    /\ moving_pages_status_[th[h].idx] = St("kProcessedAndMapped")
    /\ moving_pages_status_[th[h].idx + 1] = St("kProcessedAndMapping")

\* ------------------------------------------------------------------- C30
\* The bytes a step gives back to the kernel from the from-space.
ReleasedBy == last_reclaimed_page_ - last_reclaimed_page_'

\* C30: every release that FreeFromSpacePages issues during the compaction
\* covers at least kMinFromSpaceMadviseSize, and a reclaimable span that is
\* not larger than that is not released but left to accumulate.
C30_ReleaseAtLeastMinimum ==
  [][/\ (gc.pc = "free_madvise" /\ th'[GcThread].pc # "free_madvise") =>
          /\ ReleasedBy >= kMinFromSpaceMadviseSize
          /\ \A b \in DOMAIN from_space :
               from_space'[b] # from_space[b] =>
                 /\ from_space'[b] = Released
                 /\ b >= DivideByPageSize(last_reclaimed_page_')
                 /\ b < DivideByPageSize(last_reclaimed_page_)
     /\ (gc.pc = "free_scan" /\ th'[GcThread].pc = "page") =>
          /\ from_space' = from_space /\ last_reclaimed_page_' = last_reclaimed_page_
          /\ (last_checked_reclaim_page_idx_' # last_checked_reclaim_page_idx_
                => last_reclaimed_page_ - last_reclaimable_page_' <= kMinFromSpaceMadviseSize)]_vars

\* ------------------------------------------------------------------- C31
\* Thread t is in the middle of its work on page p of the moving space: it
\* has claimed p and has not yet stored the state that ends its work on it.
WorksOn(t, p) ==
  LET v == th[t]
      at == IF v.pc = "ioctl" THEN v.io_ret ELSE v.pc
  IN \/ /\ at \in {"alloc", "func", "store_mapping", "store_mapped", "gc_store_mapped",
                   "store_processed"}
        /\ v.idx = p
     \/ v.pc = "map_claim" /\ p >= v.m_idx /\ p < v.m_i
     \/ at = "map_store" /\ p >= v.m_i /\ p < v.m_i + DivideByPageSize(v.m_length)
     \/ v.pc = "z_claim" /\ p >= v.idx /\ p < v.idx + DivideByPageSize(v.length)
     \/ /\ at = "z_store"
        /\ p >= v.idx + DivideByPageSize(v.z_len) /\ p < v.idx + DivideByPageSize(v.length)

PlaceOf(t) ==
  LET at == IF th[t].pc = "ioctl" THEN th[t].io_ret ELSE th[t].pc
  IN IF at \in {"map_first", "map_claim", "map_store"} THEN th[t].m_ret ELSE at

\* Mutator h is inside the block of the ScopedInProgressCount of line 3532.
InScope(h) ==
  PlaceOf(h) \in {"cas", "alloc", "func", "store_mapping", "store_mapped", "reload", "dec"}

\* Mutator h has claimed page p, by winning kUnprocessed to kMutatorProcessing
\* or by taking it from kProcessed to map it, and has not finished its
\* publish.
HasClaimed(h, p) == WorksOn(h, p) /\ PlaceOf(h) \notin {"z_claim", "z_store"}

\* C32: the GC thread leaves the wait of CompactionPhase only when it reads
\* zero, the count is the number of mutators inside the counted block, a
\* mutator changes the state of a page it compacts or maps only inside that
\* block, so after the increment and before the decrement, and therefore no
\* mutator is between its claim of a page and the end of its publish when
\* the moving space is unregistered and the from-space released.
C32_NoClaimantAtUnregister ==
  /\ [](compaction_in_progress_count_ = Cardinality({h \in Mutators : InScope(h)}))
  /\ [](gc.pc \in {"unregister", "done"} =>
          \A h \in Mutators : \A p \in DOMAIN moving_pages_status_ : ~HasClaimed(h, p))
  /\ [][/\ (gc.pc = "wait" /\ th'[GcThread].pc = "unregister") =>
             compaction_in_progress_count_ = 0
        /\ \A h \in Mutators : \A p \in DOMAIN moving_pages_status_ :
             (~HasClaimed(h, p) /\ HasClaimed(h, p)') =>
               /\ InScope(h) /\ InScope(h)'
               /\ compaction_in_progress_count_ >= 1
               /\ moving_pages_status_[p] # moving_pages_status_'[p]
        /\ \A h \in Mutators :
             (InScope(h) /\ ~InScope(h)') =>
               \A p \in DOMAIN moving_pages_status_ : ~HasClaimed(h, p)]_vars

\* The GC thread is through with its pages and waits, while a mutator that
\* won a page is still compacting it.
C32_Witness ==
  /\ gc.pc = "wait"
  /\ compaction_in_progress_count_ >= 1
  /\ \E h \in Mutators :
       th[h].pc = "func" /\ State(th[h].idx) = "kMutatorProcessing" /\ HasClaimed(h, th[h].idx)

\* --------------------------------------------- the end of the compaction
\* The handlers of SIGBUS and the workers of the thread pool against the end
\* of CompactionPhase.  What a handler or a worker does to a page is one
\* step here; its steps are those of Next.
TermFrame ==
  UNCHANGED <<moving_vars, linear_vars, uffd_, uffd_initialized_, gHaveMremapDontunmap,
              is_zygote, registered, phase, cycle, paths, root_vars, marking>>

\* The handlers counted by sigbus_in_progress_count_.
InProgress(word) == word % kSigbusCounterCompactionDoneMask

\* Line 3365, negated: the done bit is set in the value that was read.
NeverDone(prev) == FALSE
CompactionDone(prev) == prev \div kSigbusCounterCompactionDoneMask = 1

\* The GC thread is not inside the compaction of the pages.
PagesDone == gc.pc \in {"idle", "done"}

\* The handlers that are at a page of the moving space (the steps of Next).
AtPages == {m \in Mutators : th[m].pc # "idle"}

\* The compaction pause of the next collection.
TermPause ==
  /\ term.pc = "idle" /\ term.cycles < MaxCycles
  /\ term' = StartCompaction(term)
  /\ TermFrame

\* ScopedInProgressCount, lines 3363-3364: the relaxed load.
SigbusLoad(m) ==
  /\ use_uffd_sigbus_ /\ term.h[m].pc = "out"
  /\ term' = [term EXCEPT !.h[m].pc = "test", !.h[m].prev = term.sigbus_in_progress_count_]
  /\ TermFrame

\* Lines 3365-3373: one test of the loop and one compare-exchange, which
\* leaves the value it found in prev when it fails.
SigbusCas(m) ==
  /\ term.h[m].pc = "test"
  /\ LET prev == term.h[m].prev
     IN term' =
          IF CompactionDone(prev)
          THEN [term EXCEPT !.h[m].pc = "spurious", !.h[m].compaction_done_ = TRUE]
          ELSE IF term.sigbus_in_progress_count_ = prev
          THEN [term EXCEPT !.sigbus_in_progress_count_ = prev + 1,
                            !.h[m].pc = "inside", !.h[m].compaction_done_ = FALSE]
          ELSE [term EXCEPT !.h[m].prev = term.sigbus_in_progress_count_]
  /\ TermFrame

\* Lines 3400-3427: ConcurrentlyProcessMovingPage or
\* ConcurrentlyProcessLinearAllocPage has returned; lines 3428-3439: the
\* address is looked up.  Then the destructor, lines 3380-3384.
SigbusReturn(m) ==
  /\ use_uffd_sigbus_ /\ term.h[m].pc \in {"inside", "spurious"}
  /\ term' = [term EXCEPT
                !.h[m].pc = "out",
                !.sigbus_in_progress_count_ = IF term.h[m].compaction_done_ THEN @ ELSE @ - 1]
  /\ TermFrame

\* Lines 4111-4115: the done bit is set, the count before it is kept.
TermFetchOr ==
  /\ use_uffd_sigbus_ /\ term.pc = "compacting" /\ PagesDone
  /\ term' = [term EXCEPT
                !.pc = "spin",
                !.count = InProgress(term.sigbus_in_progress_count_) + Cardinality(AtPages),
                !.sigbus_in_progress_count_ =
                  IF CompactionDone(@) THEN @ ELSE @ + kSigbusCounterCompactionDoneMask]
  /\ TermFrame

\* Lines 4117-4121: one test of the loop, and the load when it goes on.
TermSpin ==
  /\ term.pc = "spin"
  /\ term' = IF term.count > 0
             THEN [term EXCEPT !.count = InProgress(term.sigbus_in_progress_count_)
                                           + Cardinality(AtPages)]
             ELSE [term EXCEPT !.pc = "idle"]
  /\ TermFrame

\* Lines 4125-4127: the termination page is released.
TermRelease ==
  /\ ~use_uffd_sigbus_ /\ term.pc = "compacting" /\ PagesDone
  /\ term' = [term EXCEPT !.pc = "read", !.termination_page = "missing"]
  /\ TermFrame

\* Line 4131: the load of the termination page, which faults when the page
\* is missing, and is retried when the GC thread is woken.
TermForceRead ==
  /\ term.pc = "read"
  /\ term' = IF term.termination_page = "mapped"
             THEN [term EXCEPT !.pc = "while"]
             ELSE [term EXCEPT !.pc = "blocked", !.msg = TRUE]
  /\ TermFrame

\* Line 4132.
TermWhile ==
  /\ term.pc = "while"
  /\ term' = IF term.thread_pool_counter_ > 0
             THEN [term EXCEPT !.pc = "read", !.termination_page = "missing"]
             ELSE [term EXCEPT !.pc = "idle"]
  /\ TermFrame

\* No worker maps the page, each one wakes the GC thread.
NeverMaps(ret) == FALSE
\* Line 3333.
MapsZeropage(ret) == ~term.gKernelHasFaultRetry \/ ret = 1

\* ConcurrentCompaction, lines 3317-3320 and 3340-3352: a worker reads the
\* fault of a mutator and processes the page.
WorkerPage(m) ==
  /\ ~use_uffd_sigbus_ /\ term.h[m].pc \in {"read", "inside"} /\ th[m].pc = "idle"
  /\ term.pc = "compacting"
  /\ term' = [term EXCEPT !.h[m].pc = IF @ = "read" THEN "inside" ELSE "read"]
  /\ TermFrame

\* Lines 3317-3339: a worker reads the fault of the GC thread on the
\* termination page and leaves the loop.
WorkerExit(m) ==
  /\ term.h[m].pc = "read" /\ th[m].pc = "idle" /\ term.msg
  /\ LET ret == term.thread_pool_counter_
     IN term' = [term EXCEPT
                   !.thread_pool_counter_ = ret - 1,
                   !.msg = FALSE,
                   !.h[m].pc = "out",
                   !.termination_page = IF MapsZeropage(ret) THEN "mapped" ELSE @,
                   !.pc = IF MapsZeropage(ret) THEN "while" ELSE "read"]
  /\ TermFrame

TermGc == TermFetchOr \/ TermSpin \/ TermRelease \/ TermForceRead \/ TermWhile

\* The state after construction in a process that is not the zygote, with a
\* descriptor; the kernel retries a fault after UFFDIO_WAKE or does not.
TermInit ==
  /\ layout = CHOOSE l \in Heaps : TRUE
  /\ use_uffd_sigbus_ \in BOOLEAN
  /\ moving_pages_status_ = [p \in 0..NumPages(layout) - 1 |-> St("kUnprocessed")]
  /\ compaction_in_progress_count_ = 0
  /\ compaction_buffer_counter_ = 1
  /\ last_reclaimed_page_ = 0 /\ last_reclaimable_page_ = 0 /\ cur_reclaimable_page_ = 0
  /\ last_checked_reclaim_page_idx_ = 0 /\ class_after_obj_iter_ = 1
  /\ end_idx_for_mapping = 0
  /\ from_space = [b \in BufferIds(layout) |->
                     IF b < MaxPages(layout) THEN Source ELSE NoContent]
  /\ to_space = [p \in 0..NumPages(layout) |-> NoContent]
  /\ th = [t \in Threads |-> Thread0]
  /\ compacted = [p \in 0..NumPages(layout) - 1 |-> 0]
  /\ published = [p \in 0..NumPages(layout) |-> 0]
  /\ minor_fault_initialized_ = FALSE
  /\ state_arr = [q \in 0..LinearPages - 1 |-> "kUnprocessed"]
  /\ la = [t \in Threads |-> La0]
  /\ uffd_ = "fd" /\ uffd_initialized_ = TRUE
  /\ gHaveMremapDontunmap = TRUE
  /\ is_zygote = FALSE
  /\ registered = FALSE /\ phase = "idle" /\ cycle = 0 /\ paths = NoPaths
  /\ roots = << >> /\ weaks = << >> /\ linear_alloc_arenas_ = {}
  /\ marking = Marking0
  /\ \E retry \in BOOLEAN : term = [Term0 EXCEPT !.gKernelHasFaultRetry = retry]

TermNext ==
  \/ TermPause \/ TermGc
  \/ \E m \in Mutators :
       SigbusLoad(m) \/ SigbusCas(m) \/ SigbusReturn(m) \/ WorkerPage(m) \/ WorkerExit(m)

TermSpec == TermInit /\ [][TermNext]_vars

\* C33: a SIGBUS handler increments sigbus_in_progress_count_ only while
\* the done bit is clear, the count is the number of handlers that are
\* inside; and from the moment the GC thread has set the bit and read the
\* count as zero until the next compaction pause resets the counter, no
\* handler is inside the page-processing paths and none enters them.
HandlersInside == {m \in Mutators : term.h[m].pc = "inside"}
C33_NoHandlerAfterDone ==
  /\ [](use_uffd_sigbus_ =>
          /\ InProgress(term.sigbus_in_progress_count_) = Cardinality(HandlersInside)
          /\ (term.pc = "idle" =>
                /\ HandlersInside = {}
                /\ term.sigbus_in_progress_count_ = kSigbusCounterCompactionDoneMask))
  /\ [][ use_uffd_sigbus_ =>
           /\ InProgress(term'.sigbus_in_progress_count_) >
                InProgress(term.sigbus_in_progress_count_)
                => /\ ~CompactionDone(term.sigbus_in_progress_count_)
                   /\ ~CompactionDone(term'.sigbus_in_progress_count_)
           /\ \A m \in Mutators :
                (m \notin HandlersInside /\ m \in HandlersInside')
                  => /\ term.pc \in {"compacting", "spin"}
                     /\ ~CompactionDone(term.sigbus_in_progress_count_)
                     /\ term'.sigbus_in_progress_count_ = term.sigbus_in_progress_count_ + 1
           /\ (term.pc = "spin" /\ term'.pc = "idle") => HandlersInside = {} ]_vars

\* A cycle is over, and a handler that read the counter during it, when no
\* handler was inside, is still before its compare-exchange.
C33_Witness ==
  /\ use_uffd_sigbus_ /\ term.pc = "idle" /\ term.cycles >= 1
  /\ \E m \in Mutators : term.h[m].pc = "test" /\ term.h[m].prev = 0

\* ------------------------------------------- CompactionPhase to its end
\* The compaction of the pages (Next) followed by the end of
\* CompactionPhase, after one fault was taken and resolved; the kernel
\* retries a fault after UFFDIO_WAKE or does not.
PhaseInit ==
  /\ layout \in Heaps
  /\ use_uffd_sigbus_ \in BOOLEAN
  /\ moving_pages_status_ = [p \in 0..NumPages(layout) - 1 |-> St("kUnprocessed")]
  /\ compaction_in_progress_count_ = 0
  /\ compaction_buffer_counter_ = 1
  /\ last_reclaimed_page_ = 0 /\ last_reclaimable_page_ = 0 /\ cur_reclaimable_page_ = 0
  /\ last_checked_reclaim_page_idx_ = 0 /\ class_after_obj_iter_ = 1
  /\ end_idx_for_mapping = 0
  /\ from_space = [b \in BufferIds(layout) |->
                     IF b < MaxPages(layout) THEN Source ELSE NoContent]
  /\ to_space = [p \in 0..NumPages(layout) |-> NoContent]
  /\ th = [t \in Threads |->
             IF t = GcThread THEN [Thread0 EXCEPT !.pc = "start"]
             ELSE [Thread0 EXCEPT !.buf = IF use_uffd_sigbus_ THEN Null
                                          ELSE CompactionBuffer(layout, t),
                                  !.faults = IF t = 1 THEN 1 ELSE 0]]
  /\ compacted = [p \in 0..NumPages(layout) - 1 |-> 0]
  /\ published = [p \in 0..NumPages(layout) |-> 0]
  /\ minor_fault_initialized_ = FALSE
  /\ state_arr = [q \in 0..LinearPages - 1 |-> "kUnprocessed"]
  /\ la = [t \in Threads |-> La0]
  /\ uffd_ = "fd" /\ uffd_initialized_ = TRUE /\ gHaveMremapDontunmap = TRUE
  /\ is_zygote = FALSE /\ registered = TRUE /\ phase = "resumed" /\ cycle = 1
  /\ paths = [NoPaths EXCEPT !.concurrent = 1]
  /\ roots = << >> /\ weaks = << >> /\ linear_alloc_arenas_ = {}
  /\ marking = Marking0
  /\ \E retry \in BOOLEAN :
       term = StartCompaction([Term0 EXCEPT !.gKernelHasFaultRetry = retry])

PhaseNext == Next \/ TermGc \/ (\E m \in Mutators : WorkerExit(m))

\* Every thread that can take a step is scheduled; nothing makes a mutator
\* take a fault.
PhaseProgress == Progress \/ TermGc \/ (\E m \in Mutators : WorkerExit(m))

PhaseFairSpec == PhaseInit /\ [][PhaseNext]_vars /\ WF_vars(PhaseProgress)

\* C34: under fair scheduling CompactionPhase comes to its end: the GC
\* thread gets past every wait, each handler returns, each worker leaves
\* through the termination page, and every used page is mapped.
PhaseOver ==
  /\ gc.pc = "done" /\ term.pc = "idle"
  /\ \A m \in Mutators : th[m].pc = "idle" /\ term.h[m].pc = "out"
  /\ compaction_in_progress_count_ = 0
  /\ term.thread_pool_counter_ = 0
  /\ \A p \in DOMAIN moving_pages_status_ :
       first_obj(p) # Null => State(p) = "kProcessedAndMapped"
MapReturns(t) == th[t].pc \in {"map_first", "map_claim", "map_store"} /\ th'[t].pc = th[t].m_ret
C35_ReturnsBytesMapped ==
  [][\A t \in Threads :
       MapReturns(t) =>
         th'[t].m_result = IF th[t].pc = "map_store"
                           THEN (th[t].m_i + 1 - th[t].m_idx) * gPageSize
                           ELSE 0]_vars

\* C36: the pages MapMovingSpacePages claims in one call were compacted
\* into consecutive from-space pages, starting with the one the first page
\* names (the DCHECK of line 2490), so the one CopyIoctl of the run gives
\* every page of the run its own content.
ClaimsPage(t, i) ==
  /\ th[t].pc = "map_claim" /\ th[t].m_i = i
  /\ State(i) = "kProcessed"
  /\ moving_pages_status_'[i].state = "kProcessedAndMapping"
C36_RunIsContiguous ==
  /\ [][\A t \in Threads : \A i \in DOMAIN moving_pages_status_ :
          ClaimsPage(t, i) =>
            moving_pages_status_[i].off = th[t].m_from + (i - th[t].m_idx)]_vars
  /\ [](\A t \in Threads : \A i \in DOMAIN moving_pages_status_ :
          (th[t].pc = "map_store" /\ th[t].m_idx <= i /\ i < th[t].m_i + DivideByPageSize(th[t].m_length))
            => to_space[i] = i)

\* A run of two pages is claimed.
C36_Witness ==
  \E t \in Threads :
    /\ th[t].pc = "map_store" /\ th[t].m_length = 2 * gPageSize
    /\ th[t].m_i = th[t].m_idx

\* A heap with two TLABs, one after the other, each with an object on its
\* first page and nothing on its second.
TwoTlabLayout ==
  [ objs |-> << Obj(0, 3, Null, TRUE, <<Null, Null>>),
                Obj(3, 1, Null, FALSE, <<>>) >>,
    black_allocations_begin_ |-> 4,
    first_block_size |-> 4,
    blocks |-> << [size |-> 8, owner |-> 1,
                   objs |-> << Obj(4, 3, Null, TRUE, <<0, Null>>) >>],
                  [size |-> 8, owner |-> 2,
                   objs |-> << Obj(12, 2, Null, TRUE, <<0>>) >>] >>,
    space_words |-> 20 ]

TwoTlabHeaps ==
  {WithMutatorPages(WithPages(AfterClassMap(AfterBlackAllocations(AfterPrepare(AfterMarking(TwoTlabLayout))))))}

\* The compaction phase begins, on the heaps of Init with the SIGBUS
\* feature or on the heap with two TLABs with it or without.
EmptyInit ==
  \/ Init /\ use_uffd_sigbus_
  \/ /\ layout \in TwoTlabHeaps
     /\ use_uffd_sigbus_ \in BOOLEAN
     /\ moving_pages_status_ = [p \in 0..NumPages(layout) - 1 |-> St("kUnprocessed")]
     /\ compaction_in_progress_count_ = 0
     /\ compaction_buffer_counter_ = 1
     /\ last_reclaimed_page_ = 0 /\ last_reclaimable_page_ = 0 /\ cur_reclaimable_page_ = 0
     /\ last_checked_reclaim_page_idx_ = 0 /\ class_after_obj_iter_ = 1
     /\ end_idx_for_mapping = 0
     /\ from_space = [b \in BufferIds(layout) |->
                        IF b < MaxPages(layout) THEN Source ELSE NoContent]
     /\ to_space = [p \in 0..NumPages(layout) |-> NoContent]
     /\ th = [t \in Threads |->
                IF t = GcThread THEN [Thread0 EXCEPT !.pc = "start"]
                ELSE [Thread0 EXCEPT !.buf = IF use_uffd_sigbus_ THEN Null
                                             ELSE CompactionBuffer(layout, t)]]
     /\ compacted = [p \in 0..NumPages(layout) - 1 |-> 0]
     /\ published = [p \in 0..NumPages(layout) |-> 0]
     /\ minor_fault_initialized_ = FALSE
     /\ state_arr = [q \in 0..LinearPages - 1 |-> "kUnprocessed"]
     /\ la = [t \in Threads |-> La0]
     /\ InCompactionPhase

EmptySpec == EmptyInit /\ [][Next]_vars

\* C37: every page the zero-page path claims (the fault page and the pages
\* after it up to the end of the faulting thread's TLAB) has no first
\* object and lies inside the used part of the status array, and no page
\* with a first object is ever mapped as a zero page.
ZeroClaims(h, i) ==
  /\ th[h].pc = "z_claim" /\ th'[h] # th[h]
  /\ moving_pages_status_[i] # moving_pages_status_'[i]
C37_ZeroPagesAreEmpty ==
  /\ [][\A h \in Mutators : \A i \in DOMAIN moving_pages_status_ :
          ZeroClaims(h, i) => first_obj(i) = Null /\ i < N /\ i < th[h].end_idx]_vars
  /\ [](\A h \in Mutators :
          th[h].pc \in {"z_claim", "z_store"} \/ (th[h].pc = "ioctl" /\ th[h].io_ret = "z_store")
            => /\ th[h].end_idx <= N
               /\ \A i \in th[h].idx .. th[h].end_idx - 1 : first_obj(i) = Null)
  /\ [](\A p \in DOMAIN moving_pages_status_ :
          first_obj(p) # Null => to_space[p] # ZeroPage)

\* A handler has claimed the empty page of its TLAB, and the page after it,
\* which is not of its TLAB, has a first object and is still unprocessed.
C37_Witness ==
  \E h \in Mutators :
    /\ th[h].pc = "ioctl" /\ th[h].io_ret = "z_store" /\ th[h].length = gPageSize
    /\ th[h].end_idx = th[h].idx + 1 /\ th[h].end_idx < N
    /\ TlabOf(h) # {}
    /\ first_obj(th[h].end_idx) # Null /\ State(th[h].end_idx) = "kUnprocessed"

\* C38: for every live-words bitmap the planner's page count agrees with
\* the total of the prefix sums: the total rounded up to a page is
\* moving_first_objs_count_ pages, which is what the CHECK_EQ of line 1070
\* compares; with no live data both are zero, and when the live bytes are
\* a whole number of pages the count is that number.
C38_PageCountAgrees ==
  PlanMade =>
    LET plan == layout.prepared
    IN /\ AlignUp(plan.total, gPageSize) = plan.moving_first_objs_count_ * gPageSize
       /\ plan.post_compact_end_ = plan.moving_first_objs_count_ * gPageSize
       /\ plan.total = HistogramSum(layout.liveness.vec, 0, vector_length_(layout))
       /\ plan.total = 0 => plan.moving_first_objs_count_ = 0
       /\ ModuloPageSize(plan.total) = 0
            => plan.moving_first_objs_count_ = DivideByPageSize(plan.total)

\* The plan is made of live bytes that fill their last page.
C38_Witness ==
  /\ PlanMade
  /\ layout.prepared.total > 0 /\ ModuloPageSize(layout.prepared.total) = 0
  /\ layout.prepared.moving_first_objs_count_ >= 1

\* ------------------------------------------------ one collection after another
\* The collections of the zygote, which asks for a descriptor in every
\* collection (lines 1086 and 4727-4732) and compacts in the pause when it
\* gets none.  The heap is the same in every collection.  The moving space
\* takes faults between the registration in the pause and the end of
\* CompactionPhase, while the collector is short of "done".
RoundInit ==
  /\ layout \in Heaps
  /\ use_uffd_sigbus_ \in BOOLEAN
  /\ moving_pages_status_ = [p \in 0..NumPages(layout) - 1 |-> St("kUnprocessed")]
  /\ compaction_in_progress_count_ = 0
  /\ compaction_buffer_counter_ = 1
  /\ last_reclaimed_page_ = 0 /\ last_reclaimable_page_ = 0 /\ cur_reclaimable_page_ = 0
  /\ last_checked_reclaim_page_idx_ = 0 /\ class_after_obj_iter_ = 1
  /\ end_idx_for_mapping = 0
  /\ from_space = [b \in BufferIds(layout) |->
                     IF b < MaxPages(layout) THEN Source ELSE NoContent]
  /\ to_space = [p \in 0..NumPages(layout) |-> NoContent]
  /\ th = [t \in Threads |->
             IF t = GcThread THEN [Thread0 EXCEPT !.pc = "done"] ELSE Thread0]
  /\ compacted = [p \in 0..NumPages(layout) - 1 |-> 0]
  /\ published = [p \in 0..NumPages(layout) |-> 0]
  /\ minor_fault_initialized_ = FALSE
  /\ state_arr = [q \in 0..LinearPages - 1 |-> "kUnprocessed"]
  /\ la = [t \in Threads |-> La0]
  /\ uffd_ = "kFdUnused" /\ uffd_initialized_ = FALSE /\ gHaveMremapDontunmap = TRUE
  /\ is_zygote = TRUE /\ registered = FALSE /\ phase = "idle" /\ cycle = 0
  /\ paths = NoPaths
  /\ roots = << >> /\ weaks = << >> /\ linear_alloc_arenas_ = {}
  /\ marking = Marking0
  /\ \E retry \in BOOLEAN : term = [Term0 EXCEPT !.gKernelHasFaultRetry = retry]

\* RunPhases up to the end of CompactionPause: InitializePhase (line 746),
\* the descriptor (line 1086), the counters of the handlers and the workers,
\* and either the start of CompactionPhase with the mutators resumed, one of
\* the MaxFaults faults of the collection taken, or
\* CompactMovingSpace<kFallbackMode>, which stores no page state (line 2122).
NextCompactionPause ==
  /\ phase = "idle" /\ cycle < MaxCycles
  /\ cycle' = cycle + 1
  /\ compaction_buffer_counter_' = 1
  /\ \E ok \in BOOLEAN :
       LET r == CreateUserfaultfd(FALSE, ok)
       IN /\ uffd_' = r.uffd_ /\ uffd_initialized_' = r.uffd_initialized_
          /\ IF IsValidFd(r.uffd_)
             THEN /\ phase' = "resumed" /\ registered' = TRUE
                  /\ paths' = [NoPaths EXCEPT !.concurrent = 1]
                  /\ term' = StartCompaction(term)
                  /\ th' = [t \in Threads |->
                              IF t = GcThread THEN [Thread0 EXCEPT !.pc = "start"]
                              ELSE [th[t] EXCEPT
                                      !.buf = IF use_uffd_sigbus_ THEN Null
                                              ELSE CompactionBuffer(layout, t),
                                      !.faults = IF t = 1 THEN 1 ELSE 0]]
                  /\ from_space' = [b \in BufferIds(layout) |->
                                      IF b < MaxPages(layout) THEN Source ELSE NoContent]
                  /\ to_space' = [p \in 0..NumPages(layout) |-> NoContent]
                  /\ compacted' = [p \in 0..NumPages(layout) - 1 |-> 0]
                  /\ published' = [p \in 0..NumPages(layout) |-> 0]
             ELSE /\ phase' = "finish" /\ registered' = FALSE
                  /\ paths' = [NoPaths EXCEPT !.stw = 1]
                  /\ to_space' = [p \in 0..NumPages(layout) |->
                                    IF p < N /\ first_obj(p) # Null THEN p ELSE NoContent]
                  /\ compacted' = [p \in 0..NumPages(layout) - 1 |->
                                     IF first_obj(p) # Null THEN 1 ELSE 0]
                  /\ published' = [p \in 0..NumPages(layout) |-> 0]
                  /\ UNCHANGED <<term, th, from_space>>
  /\ last_reclaimed_page_' = 0 /\ last_reclaimable_page_' = 0 /\ cur_reclaimable_page_' = 0
  /\ last_checked_reclaim_page_idx_' = 0 /\ class_after_obj_iter_' = 1
  /\ end_idx_for_mapping' = 0
  /\ UNCHANGED <<linear_vars, layout, use_uffd_sigbus_, moving_pages_status_,
                 compaction_in_progress_count_, gHaveMremapDontunmap, is_zygote,
                 root_vars, marking>>

\* CompactionPhase has returned.
CompactionPhaseOver ==
  phase = "resumed" /\ gc.pc = "done" /\ term.pc = "idle"

\* A FinishPhase that leaves info_map_ as it is.
KeepInfoMap(status) == status

\* Line 4719, info_map_.MadviseDontNeedAndZero(): the page-status array,
\* which lies in info_map_ (line 421), reads as zero, kUnprocessed.
MadviseDontNeedAndZero(status) == [p \in DOMAIN status |-> St("kUnprocessed")]

\* FinishPhase, lines 4699-4735, in the zygote.
FinishPhaseOfZygote ==
  /\ phase = "finish" \/ CompactionPhaseOver
  /\ phase' = "idle"
  /\ moving_pages_status_' = MadviseDontNeedAndZero(moving_pages_status_)
  /\ LET r == IF is_zygote /\ IsValidFd(uffd_) THEN CloseUffd
              ELSE [uffd_ |-> uffd_, uffd_initialized_ |-> uffd_initialized_]
     IN uffd_' = r.uffd_ /\ uffd_initialized_' = r.uffd_initialized_
  /\ registered' = FALSE
  /\ UNCHANGED <<linear_vars, layout, use_uffd_sigbus_, compaction_in_progress_count_, th,
                 compaction_buffer_counter_, reclaim_vars, end_idx_for_mapping, from_space,
                 to_space, compacted, published, gHaveMremapDontunmap, is_zygote, cycle,
                 paths, root_vars, marking, term>>

RoundNext == PhaseNext \/ NextCompactionPause \/ FinishPhaseOfZygote

RoundSpec == RoundInit /\ [][RoundNext]_vars

\* C39: at the compaction pause of every collection, whichever way the
\* collections before it compacted, every entry of moving_pages_status_ is
\* kUnprocessed and compaction_in_progress_count_ is zero.
C39_CleanAtPause ==
  /\ [](phase = "idle" =>
          /\ \A p \in DOMAIN moving_pages_status_ :
               moving_pages_status_[p] = St("kUnprocessed")
          /\ compaction_in_progress_count_ = 0)
  /\ [][(phase = "idle" /\ phase' # "idle") =>
          /\ \A p \in DOMAIN moving_pages_status_ :
               moving_pages_status_'[p] = St("kUnprocessed")
          /\ compaction_in_progress_count_' = 0]_vars

\* The third collection is at its pause, after one that compacted
\* concurrently and one that compacted in the pause.
C39_Witness ==
  /\ phase = "idle" /\ cycle = 2
  /\ term.cycles = 1

\* ------------------------------------------- the roots of linear-alloc pages
\* The threads that update the roots of linear-alloc page q: the collector in
\* ProcessLinearAlloc (lines 3943-3962) and the handlers of faults
\* (lines 3742-3750).
Updaters(q) ==
  {t \in Threads :
     \/ t = GcThread /\ lgc.pc = "lin_update" /\ lgc.idx = q
     \/ t \in Mutators /\ la[t].pc = "lin_won" /\ la[t].idx = q}

\* C40: the roots of a linear-alloc page are updated by at most one thread
\* in a collection, the one that takes the page from kUnprocessed to
\* kProcessing, and the state of a linear-alloc page is never
\* kMutatorProcessing, neither in the array nor as a handler has loaded it,
\* so no handler comes to the case of line 3811.
C40_OneUpdaterPerPage ==
  /\ [](\A q \in 0..LinearPages - 1 :
          /\ Cardinality(Updaters(q)) <= 1
          /\ state_arr[q] # "kMutatorProcessing"
          /\ \A h \in Mutators : la[h].state # "kMutatorProcessing")
  /\ [][\A q \in 0..LinearPages - 1 :
          /\ state_arr[q] # "kUnprocessed" => state_arr'[q] # "kUnprocessed"
          /\ \A t \in Threads :
               (t \in Updaters(q)' /\ t \notin Updaters(q)) =>
                 state_arr[q] = "kUnprocessed" /\ state_arr'[q] = "kProcessing"]_vars

\* The collector updates a page that a handler saw kUnprocessed and is about
\* to try for.
C40_Witness ==
  \E h \in Mutators :
    /\ la[h].pc = "lin_loop" /\ la[h].state = "kUnprocessed"
    /\ state_arr[la[h].idx] = "kProcessing"
    /\ Updaters(la[h].idx) = {GcThread}

====
